---- MODULE Spec2Model ----
(***************************************************************************)
(* Raft-3D: a replicated store of printers, filaments and print jobs.      *)
(*                                                                         *)
(* The model covers the typed FSM (store/fsm.go), the domain model and its *)
(* validators (models/models.go), the consensus adapter (store/raft.go),   *)
(* the request gateway (api/handlers.go) and the key-value FSM of the      *)
(* raft3d package (raft3d/raft/fsm.go, raft3d/raft/store.go).              *)
(*                                                                         *)
(* The repository holds two programs: "store" (the typed FSM behind the    *)
(* gin gateway) and "raft3d" (a key-value FSM behind RaftStore). A run is  *)
(* a run of one of them; the variable program says which.                  *)
(*                                                                         *)
(* Three specifications share the variables:                               *)
(*   Spec      the typed FSM fed an arbitrary command stream;              *)
(*   SpecSnap  an FSM of either program with Snapshot, Persist and Restore *)
(*             (on a second, fresh FSM) interleaved with Apply;            *)
(*   SpecRaft  two nodes, one committed log, gateway writes, replication.  *)
(***************************************************************************)
EXTENDS Integers, Sequences, FiniteSets, TLC

VARIABLES
    program,    \* which of the two programs runs: "store" or "raft3d"
    store,      \* FSM.store of the FSM under study
    nApplied,   \* number of log entries FSM.Apply has consumed
    emitted,    \* history: ids returned by Store.GetNextID, per entity kind
    snapshot,   \* the fsmSnapshot handle returned by FSM.Snapshot (its store)
    sink,       \* the bytes fsmSnapshot.Persist wrote to the snapshot sink
    restored,   \* store of a second FSM, fresh until FSM.Restore runs on it
    nodes,      \* per node: Raft role, known leader, FSM store, applied index
    log,        \* the committed Raft log (a sequence of commands)
    resp,       \* the last gateway response
    kv,         \* raft3d: the key-value FSM, its snapshot, sink and restored FSM
    reqs,       \* raft3d: the HTTP requests received, each with its handler's position
    call,       \* the call under study: its arguments, its progress and its result
    proc        \* the node's process: main's position, its servers and stores

vars == <<program, store, nApplied, emitted, snapshot, sink, restored,
          nodes, log, resp, kv, reqs, call, proc>>

fsmVars == <<store, nApplied, emitted, snapshot, sink, restored>>
raftVars == <<nodes, log, resp>>

(***************************************************************************)
(* Bounds of the model.                                                    *)
(***************************************************************************)
MaxCmds == 5
MaxLog == 3
MaxSnapCmds == 3
MaxKVOps == 3
MaxApiLog == 4
MaxSerialLog == 6

(***************************************************************************)
(* Domain model (models/models.go)                                         *)
(***************************************************************************)
Queued == "Queued"
Running == "Running"
Done == "Done"
Canceled == "Canceled"

CreatePrinter == "CREATE_PRINTER"
CreateFilament == "CREATE_FILAMENT"
CreatePrintJob == "CREATE_PRINT_JOB"
UpdatePrintJob == "UPDATE_PRINT_JOB"

Kinds == {"printer", "filament", "printjob"}

\* The zero value of time.Time, and the instants a local clock may read.
ZeroTime == 0
Times == {1, 2}

\* A Go map as a function on its key set.
EmptyMap == <<>>
Put(m, k, v) == [x \in (DOMAIN m) \cup {k} |-> IF x = k THEN v ELSE m[x]]

NewStore ==
    [Printers |-> EmptyMap,
     Filaments |-> EmptyMap,
     PrintJobs |-> EmptyMap,
     NextID |-> [k \in Kinds |-> 1]]

\* strconv.Itoa
Digit(d) == <<"0", "1", "2", "3", "4", "5", "6", "7", "8", "9">>[d + 1]

RECURSIVE ItoaNat(_)
ItoaNat(n) == IF n < 10 THEN Digit(n) ELSE ItoaNat(n \div 10) \o Digit(n % 10)

Itoa(n) == IF n < 0 THEN "-" \o ItoaNat(-n) ELSE ItoaNat(n)

\* Store.GetNextID: returns the id and the store with the counter advanced.
GetNextIDSkipsIncrement(s, entityType) ==
    [id |-> Itoa(s.NextID[entityType]), store |-> s]

GetNextID(s, entityType) ==
    [id |-> Itoa(s.NextID[entityType]),
     store |-> [s EXCEPT !.NextID[entityType] = @ + 1]]

NoError == ""
ErrQueued == "queued jobs can only transition to running or canceled"
ErrRunning == "running jobs can only transition to done or canceled"
ErrTerminal == "jobs in done or canceled state cannot transition to any other state"
ErrUnknownStatus == "unknown status"

ValidateAcceptsQueuedToDone(currentStatus, newStatus) ==
    CASE currentStatus = Queued ->
            IF newStatus # Running /\ newStatus # Canceled /\ newStatus # Done
            THEN ErrQueued ELSE NoError
      [] currentStatus = Running ->
            IF newStatus # Done /\ newStatus # Canceled THEN ErrRunning ELSE NoError
      [] currentStatus \in {Done, Canceled} -> ErrTerminal
      [] OTHER -> ErrUnknownStatus

ValidatePrintJobStatusTransition(currentStatus, newStatus) ==
    CASE currentStatus = Queued ->
            IF newStatus # Running /\ newStatus # Canceled THEN ErrQueued ELSE NoError
      [] currentStatus = Running ->
            IF newStatus # Done /\ newStatus # Canceled THEN ErrRunning ELSE NoError
      [] currentStatus \in {Done, Canceled} -> ErrTerminal
      [] OTHER -> ErrUnknownStatus

\* The loop of CheckFilamentAvailability over s.PrintJobs.
RECURSIVE SumWeights(_, _)
SumWeights(jobs, ids) ==
    IF ids = {} THEN 0
    ELSE LET j == CHOOSE x \in ids : TRUE
         IN jobs[j].PrintWeightInGrams + SumWeights(jobs, ids \ {j})

ActiveJobsOn(s, filamentID) ==
    {j \in DOMAIN s.PrintJobs :
        /\ s.PrintJobs[j].FilamentID = filamentID
        /\ s.PrintJobs[j].Status \in {Queued, Running}}

weightUsedByOtherJobs(s, filamentID) ==
    SumWeights(s.PrintJobs, ActiveJobsOn(s, filamentID))

ErrNoFilament == "filament does not exist"
ErrNoPrinter == "printer does not exist"
ErrNoPrintJob == "print job does not exist"
ErrNotEnough == "not enough filament"
ErrUnmarshal == "failed to unmarshal"
ErrUnknownCommand == "unknown command type"

\* An error value: its message and, for 'not enough filament', the two
\* numbers the message is formatted with.
Err(msg) == [msg |-> msg, needs |-> 0, available |-> 0]
Ok == Err(NoError)

CheckFilamentAvailabilityOffByOne(s, filamentID, printWeight) ==
    IF filamentID \notin DOMAIN s.Filaments THEN Err(ErrNoFilament)
    ELSE LET remainingWeight ==
                 s.Filaments[filamentID].RemainingWeightInGrams
                     - weightUsedByOtherJobs(s, filamentID)
         IN IF remainingWeight <= printWeight
            THEN [msg |-> ErrNotEnough, needs |-> printWeight,
                  available |-> remainingWeight]
            ELSE Ok

CheckFilamentAvailability(s, filamentID, printWeight) ==
    IF filamentID \notin DOMAIN s.Filaments THEN Err(ErrNoFilament)
    ELSE LET remainingWeight ==
                 s.Filaments[filamentID].RemainingWeightInGrams
                     - weightUsedByOtherJobs(s, filamentID)
         IN IF remainingWeight < printWeight
            THEN [msg |-> ErrNotEnough, needs |-> printWeight,
                  available |-> remainingWeight]
            ELSE Ok

(***************************************************************************)
(* Commands and their payloads                                             *)
(***************************************************************************)
\* Command.Data: the JSON payload; valid = FALSE is a payload json.Unmarshal
\* rejects.
Payload(v) == [valid |-> TRUE, v |-> v]
BadPayload == [valid |-> FALSE, v |-> <<>>]

Command(type, data, id, status) ==
    [Type |-> type, Data |-> data, ID |-> id, Status |-> status]

Printer(id, company) == [ID |-> id, Company |-> company, Model |-> "Ender 3"]

Filament(id, total, remaining) ==
    [ID |-> id, Type |-> "PLA", Color |-> "red",
     TotalWeightInGrams |-> total, RemainingWeightInGrams |-> remaining]

PrintJob(id, printerID, filamentID, weight, status) ==
    [ID |-> id, PrinterID |-> printerID, FilamentID |-> filamentID,
     Filepath |-> "a.gcode", PrintWeightInGrams |-> weight, Status |-> status,
     CreatedAt |-> ZeroTime, UpdatedAt |-> ZeroTime]

\* The zero value of models.Filament, what a Go map yields for a missing key.
ZeroFilament ==
    [ID |-> "", Type |-> "", Color |-> "",
     TotalWeightInGrams |-> 0, RemainingWeightInGrams |-> 0]

(***************************************************************************)
(* FSM.Apply and its four handlers (store/fsm.go)                          *)
(***************************************************************************)
\* What a handler hands back: the store after it, the error (or Ok), the
\* entity kind whose allocator ran ("" when none did) and the id concerned.
Applied(s, err, allocated, id) ==
    [store |-> s, err |-> err, allocated |-> allocated, id |-> id]

Rejected(s, msg) == Applied(s, Err(msg), "", "")

applyCreatePrinter(s, data) ==
    IF ~data.valid THEN Rejected(s, ErrUnmarshal)
    ELSE LET fresh == data.v.ID = ""
             next == GetNextID(s, "printer")
             printer == [data.v EXCEPT !.ID = IF fresh THEN next.id ELSE @]
             s1 == IF fresh THEN next.store ELSE s
         IN Applied([s1 EXCEPT !.Printers = Put(@, printer.ID, printer)],
                    Ok, IF fresh THEN "printer" ELSE "", printer.ID)

applyCreateFilamentResetsRemaining(s, data) ==
    IF ~data.valid THEN Rejected(s, ErrUnmarshal)
    ELSE LET fresh == data.v.ID = ""
             next == GetNextID(s, "filament")
             f1 == [data.v EXCEPT !.ID = IF fresh THEN next.id ELSE @]
             filament ==
                 [f1 EXCEPT !.RemainingWeightInGrams = f1.TotalWeightInGrams]
             s1 == IF fresh THEN next.store ELSE s
         IN Applied([s1 EXCEPT !.Filaments = Put(@, filament.ID, filament)],
                    Ok, IF fresh THEN "filament" ELSE "", filament.ID)

applyCreateFilament(s, data) ==
    IF ~data.valid THEN Rejected(s, ErrUnmarshal)
    ELSE LET fresh == data.v.ID = ""
             next == GetNextID(s, "filament")
             f1 == [data.v EXCEPT !.ID = IF fresh THEN next.id ELSE @]
             filament ==
                 IF f1.RemainingWeightInGrams = 0
                 THEN [f1 EXCEPT !.RemainingWeightInGrams = f1.TotalWeightInGrams]
                 ELSE f1
             s1 == IF fresh THEN next.store ELSE s
         IN Applied([s1 EXCEPT !.Filaments = Put(@, filament.ID, filament)],
                    Ok, IF fresh THEN "filament" ELSE "", filament.ID)

applyCreatePrintJobNoPrinterCheck(s, data, now1, now2) ==
    IF ~data.valid THEN Rejected(s, ErrUnmarshal)
    ELSE IF data.v.FilamentID \notin DOMAIN s.Filaments
    THEN Rejected(s, ErrNoFilament)
    ELSE LET avail == CheckFilamentAvailability(
                          s, data.v.FilamentID, data.v.PrintWeightInGrams)
         IN IF avail # Ok THEN Applied(s, avail, "", "")
            ELSE LET fresh == data.v.ID = ""
                     next == GetNextID(s, "printjob")
                     printJob ==
                         [data.v EXCEPT !.ID = IF fresh THEN next.id ELSE @,
                                        !.Status = Queued,
                                        !.CreatedAt = now1,
                                        !.UpdatedAt = now2]
                     s1 == IF fresh THEN next.store ELSE s
                 IN Applied([s1 EXCEPT !.PrintJobs = Put(@, printJob.ID, printJob)],
                            Ok, IF fresh THEN "printjob" ELSE "", printJob.ID)

\* now1 and now2 are the two readings of time.Now().
applyCreatePrintJobAllocatesFirst(s, data, now1, now2) ==
    IF ~data.valid THEN Rejected(s, ErrUnmarshal)
    ELSE LET fresh == data.v.ID = ""
             next == GetNextID(s, "printjob")
             s1 == IF fresh THEN next.store ELSE s
         IN IF data.v.PrinterID \notin DOMAIN s.Printers
            THEN Rejected(s1, ErrNoPrinter)
            ELSE IF data.v.FilamentID \notin DOMAIN s.Filaments
            THEN Rejected(s1, ErrNoFilament)
            ELSE LET avail == CheckFilamentAvailability(
                                  s, data.v.FilamentID, data.v.PrintWeightInGrams)
                     printJob ==
                         [data.v EXCEPT !.ID = IF fresh THEN next.id ELSE @,
                                        !.Status = Queued,
                                        !.CreatedAt = now1,
                                        !.UpdatedAt = now2]
                 IN IF avail # Ok THEN Applied(s1, avail, "", "")
                    ELSE Applied([s1 EXCEPT !.PrintJobs = Put(@, printJob.ID, printJob)],
                                 Ok, IF fresh THEN "printjob" ELSE "", printJob.ID)

applyCreatePrintJobKeepsStatus(s, data, now1, now2) ==
    IF ~data.valid THEN Rejected(s, ErrUnmarshal)
    ELSE IF data.v.PrinterID \notin DOMAIN s.Printers
    THEN Rejected(s, ErrNoPrinter)
    ELSE IF data.v.FilamentID \notin DOMAIN s.Filaments
    THEN Rejected(s, ErrNoFilament)
    ELSE LET avail == CheckFilamentAvailability(
                          s, data.v.FilamentID, data.v.PrintWeightInGrams)
         IN IF avail # Ok THEN Applied(s, avail, "", "")
            ELSE LET fresh == data.v.ID = ""
                     next == GetNextID(s, "printjob")
                     printJob ==
                         [data.v EXCEPT !.ID = IF fresh THEN next.id ELSE @,
                                        !.Status = IF @ = "" THEN Queued ELSE @,
                                        !.CreatedAt = now1,
                                        !.UpdatedAt = now2]
                     s1 == IF fresh THEN next.store ELSE s
                 IN Applied([s1 EXCEPT !.PrintJobs = Put(@, printJob.ID, printJob)],
                            Ok, IF fresh THEN "printjob" ELSE "", printJob.ID)

applyCreatePrintJob(s, data, now1, now2) ==
    IF ~data.valid THEN Rejected(s, ErrUnmarshal)
    ELSE IF data.v.PrinterID \notin DOMAIN s.Printers
    THEN Rejected(s, ErrNoPrinter)
    ELSE IF data.v.FilamentID \notin DOMAIN s.Filaments
    THEN Rejected(s, ErrNoFilament)
    ELSE LET avail == CheckFilamentAvailability(
                          s, data.v.FilamentID, data.v.PrintWeightInGrams)
         IN IF avail # Ok THEN Applied(s, avail, "", "")
            ELSE LET fresh == data.v.ID = ""
                     next == GetNextID(s, "printjob")
                     printJob ==
                         [data.v EXCEPT !.ID = IF fresh THEN next.id ELSE @,
                                        !.Status = Queued,
                                        !.CreatedAt = now1,
                                        !.UpdatedAt = now2]
                     s1 == IF fresh THEN next.store ELSE s
                 IN Applied([s1 EXCEPT !.PrintJobs = Put(@, printJob.ID, printJob)],
                            Ok, IF fresh THEN "printjob" ELSE "", printJob.ID)

applyUpdatePrintJobResetsCreatedAt(s, id, status, now) ==
    IF id \notin DOMAIN s.PrintJobs THEN Rejected(s, ErrNoPrintJob)
    ELSE LET old == s.PrintJobs[id]
             verdict == ValidatePrintJobStatusTransition(old.Status, status)
         IN IF verdict # NoError THEN Rejected(s, verdict)
            ELSE LET printJob == [old EXCEPT !.Status = status, !.UpdatedAt = now,
                                             !.CreatedAt = now]
                     fid == printJob.FilamentID
                     before == IF fid \in DOMAIN s.Filaments
                               THEN s.Filaments[fid] ELSE ZeroFilament
                     left == before.RemainingWeightInGrams
                                 - printJob.PrintWeightInGrams
                     filament ==
                         [before EXCEPT !.RemainingWeightInGrams =
                                            IF left < 0 THEN 0 ELSE left]
                     s1 == IF status = Done
                           THEN [s EXCEPT !.Filaments = Put(@, fid, filament)]
                           ELSE s
                 IN Applied([s1 EXCEPT !.PrintJobs = Put(@, id, printJob)],
                            Ok, "", id)

applyUpdatePrintJobNoClamp(s, id, status, now) ==
    IF id \notin DOMAIN s.PrintJobs THEN Rejected(s, ErrNoPrintJob)
    ELSE LET old == s.PrintJobs[id]
             verdict == ValidatePrintJobStatusTransition(old.Status, status)
         IN IF verdict # NoError THEN Rejected(s, verdict)
            ELSE LET printJob == [old EXCEPT !.Status = status, !.UpdatedAt = now]
                     fid == printJob.FilamentID
                     before == IF fid \in DOMAIN s.Filaments
                               THEN s.Filaments[fid] ELSE ZeroFilament
                     filament ==
                         [before EXCEPT !.RemainingWeightInGrams =
                                            @ - printJob.PrintWeightInGrams]
                     s1 == IF status = Done
                           THEN [s EXCEPT !.Filaments = Put(@, fid, filament)]
                           ELSE s
                 IN Applied([s1 EXCEPT !.PrintJobs = Put(@, id, printJob)],
                            Ok, "", id)

applyUpdatePrintJob(s, id, status, now) ==
    IF id \notin DOMAIN s.PrintJobs THEN Rejected(s, ErrNoPrintJob)
    ELSE LET old == s.PrintJobs[id]
             verdict == ValidatePrintJobStatusTransition(old.Status, status)
         IN IF verdict # NoError THEN Rejected(s, verdict)
            ELSE LET printJob == [old EXCEPT !.Status = status, !.UpdatedAt = now]
                     fid == printJob.FilamentID
                     before == IF fid \in DOMAIN s.Filaments
                               THEN s.Filaments[fid] ELSE ZeroFilament
                     left == before.RemainingWeightInGrams
                                 - printJob.PrintWeightInGrams
                     filament ==
                         [before EXCEPT !.RemainingWeightInGrams =
                                            IF left < 0 THEN 0 ELSE left]
                     s1 == IF status = Done
                           THEN [s EXCEPT !.Filaments = Put(@, fid, filament)]
                           ELSE s
                 IN Applied([s1 EXCEPT !.PrintJobs = Put(@, id, printJob)],
                            Ok, "", id)

\* FSM.Apply: the dispatch on cmd.Type. now1, now2 are what the local clock
\* reads while the entry is applied.
Apply(s, cmd, now1, now2) ==
    CASE cmd.Type = CreatePrinter -> applyCreatePrinter(s, cmd.Data)
      [] cmd.Type = CreateFilament -> applyCreateFilament(s, cmd.Data)
      [] cmd.Type = CreatePrintJob -> applyCreatePrintJob(s, cmd.Data, now1, now2)
      [] cmd.Type = UpdatePrintJob -> applyUpdatePrintJob(s, cmd.ID, cmd.Status, now1)
      [] OTHER -> Rejected(s, ErrUnknownCommand)

(***************************************************************************)
(* Snapshot, Persist and Restore (store/fsm.go)                            *)
(*                                                                         *)
(* The snapshot body is the JSON text of the Store. A JSON object is the   *)
(* set of its <<key, value>> members; an int is its decimal numeral and a  *)
(* time.Time its RFC 3339 text.                                            *)
(***************************************************************************)
\* The integers the numerals of a snapshot are read back into.
ParseRange == -12 .. 12

\* strconv.Atoi / the JSON number scanner: the int a decimal numeral denotes.
Atoi(str) == CHOOSE n \in ParseRange : Itoa(n) = str

\* time.Time.MarshalJSON and UnmarshalJSON.
FormatTime(t) == IF t = ZeroTime THEN "0001-01-01T00:00:00Z"
                 ELSE "2024-01-01T00:00:0" \o Itoa(t) \o "Z"
ParseTime(str) == CHOOSE t \in Times \cup {ZeroTime} : FormatTime(t) = str

\* A Go map as a JSON object, and back; the values are encoded separately.
MarshalObject(m) == {<<k, m[k]>> : k \in DOMAIN m}
UnmarshalObject(obj) ==
    [k \in {member[1] : member \in obj} |->
        (CHOOSE member \in obj : member[1] = k)[2]]

MarshalPrinter(p) == [id |-> p.ID, company |-> p.Company, model |-> p.Model]
UnmarshalPrinter(j) == [ID |-> j.id, Company |-> j.company, Model |-> j.model]

MarshalFilament(f) ==
    [id |-> f.ID, type |-> f.Type, color |-> f.Color,
     total_weight_in_grams |-> Itoa(f.TotalWeightInGrams),
     remaining_weight_in_grams |-> Itoa(f.RemainingWeightInGrams)]
UnmarshalFilament(j) ==
    [ID |-> j.id, Type |-> j.type, Color |-> j.color,
     TotalWeightInGrams |-> Atoi(j.total_weight_in_grams),
     RemainingWeightInGrams |-> Atoi(j.remaining_weight_in_grams)]

MarshalPrintJob(pj) ==
    [id |-> pj.ID, printer_id |-> pj.PrinterID, filament_id |-> pj.FilamentID,
     filepath |-> pj.Filepath,
     print_weight_in_grams |-> Itoa(pj.PrintWeightInGrams),
     status |-> pj.Status,
     created_at |-> FormatTime(pj.CreatedAt),
     updated_at |-> FormatTime(pj.UpdatedAt)]
UnmarshalPrintJob(j) ==
    [ID |-> j.id, PrinterID |-> j.printer_id, FilamentID |-> j.filament_id,
     Filepath |-> j.filepath,
     PrintWeightInGrams |-> Atoi(j.print_weight_in_grams),
     Status |-> j.status,
     CreatedAt |-> ParseTime(j.created_at),
     UpdatedAt |-> ParseTime(j.updated_at)]

\* json.Marshal(s.store) and json.Unmarshal(data, &store).
MarshalStore(s) ==
    [printers |->
         MarshalObject([k \in DOMAIN s.Printers |-> MarshalPrinter(s.Printers[k])]),
     filaments |->
         MarshalObject([k \in DOMAIN s.Filaments |-> MarshalFilament(s.Filaments[k])]),
     print_jobs |->
         MarshalObject([k \in DOMAIN s.PrintJobs |-> MarshalPrintJob(s.PrintJobs[k])]),
     next_id |-> MarshalObject([k \in DOMAIN s.NextID |-> Itoa(s.NextID[k])])]
UnmarshalStore(doc) ==
    LET printers == UnmarshalObject(doc.printers)
        filaments == UnmarshalObject(doc.filaments)
        printJobs == UnmarshalObject(doc.print_jobs)
        nextID == UnmarshalObject(doc.next_id)
    IN [Printers |-> [k \in DOMAIN printers |-> UnmarshalPrinter(printers[k])],
        Filaments |-> [k \in DOMAIN filaments |-> UnmarshalFilament(filaments[k])],
        PrintJobs |-> [k \in DOMAIN printJobs |-> UnmarshalPrintJob(printJobs[k])],
        NextID |-> [k \in DOMAIN nextID |-> Atoi(nextID[k])]]

\* FSM.Snapshot: the clone of the four maps, entry by entry.
CopyMap(m) == [k \in DOMAIN m |-> m[k]]

Snapshot(s) ==
    [Printers |-> CopyMap(s.Printers),
     Filaments |-> CopyMap(s.Filaments),
     PrintJobs |-> CopyMap(s.PrintJobs),
     NextID |-> CopyMap(s.NextID)]

\* fsmSnapshot.Persist: the bytes written to the sink.
PersistDropsPrintJobs(snap) == [MarshalStore(snap) EXCEPT !.print_jobs = {}]

Persist(snap) == MarshalStore(snap)

\* FSM.Restore: the store decoded from the bytes read.
Restore(data) == UnmarshalStore(data)

(***************************************************************************)
(* The key-value FSM (raft3d/raft/fsm.go)                                  *)
(***************************************************************************)
KVCommand(op, key, value) == [Op |-> op, Key |-> key, Value |-> value]

KVKeys == {"printer_1", "printjob_1"}
KVValues == {"v1", "v2"}
KVCommands ==
    {KVCommand("set", k, v) : k \in KVKeys, v \in KVValues} \cup
    {KVCommand("delete", k, "") : k \in KVKeys} \cup
    {KVCommand("rename", "printer_1", "v1")}

Remove(m, k) == [x \in (DOMAIN m) \ {k} |-> m[x]]

ErrUnknownOp == "unknown command operation"

\* FSM.Apply of the key-value FSM: the data after it and the value returned.
KVApply(data, cmd) ==
    CASE cmd.Op = "set" -> [data |-> Put(data, cmd.Key, cmd.Value), err |-> NoError]
      [] cmd.Op = "delete" -> [data |-> Remove(data, cmd.Key), err |-> NoError]
      [] OTHER -> [data |-> data, err |-> ErrUnknownOp]

\* FSM.Snapshot, FSMSnapshot.Persist and FSM.Restore of the key-value FSM.
KVSnapshot(data) == CopyMap(data)

KVPersist(snap) == MarshalObject(snap)

KVRestore(bytes) == UnmarshalObject(bytes)

NewKV ==
    [data |-> EmptyMap, nOps |-> 0,
     snapshot |-> [taken |-> FALSE, data |-> EmptyMap, of |-> EmptyMap],
     sink |-> [written |-> FALSE, data |-> {}, nOps |-> 0],
     restored |-> [done |-> FALSE, data |-> EmptyMap, of |-> EmptyMap]]

(***************************************************************************)
(* The commands a client can have committed to the log. The gateway binds  *)
(* the request body to the model struct without further validation, so a   *)
(* payload may carry its own id, any status and any integer weight.        *)
(***************************************************************************)
ClientIDs == {"", "1"}
RefIDs == {"1", "7"}
FilamentWeights == {<<2, 0>>, <<1, 0>>, <<-1, 0>>, <<1, 2>>}
PrintWeights == {-1, 1, 2}
UpdateIDs == {"1", "2"}
UpdateStatuses == {Queued, Running, Done, Canceled, "Paused"}

PrinterCommands ==
    {Command(CreatePrinter, Payload(p), "", "") :
        p \in {Printer("", "Creality"), Printer("1", "Creality"),
               Printer("1", "Prusa")}}

FilamentCommands ==
    {Command(CreateFilament, Payload(Filament("", 2, 0)), "", "")} \cup
    {Command(CreateFilament, Payload(Filament("1", w[1], w[2])), "", "") :
        w \in FilamentWeights}

PrintJobCommands ==
    {Command(CreatePrintJob, Payload(PrintJob(c[1], c[2], c[3], c[4], "")), "", "") :
        c \in ClientIDs \X RefIDs \X RefIDs \X PrintWeights} \cup
    {Command(CreatePrintJob, Payload(PrintJob("", "1", "1", 1, st)), "", "") :
        st \in {Done, "Paused"}}

UpdateCommands ==
    {Command(UpdatePrintJob, BadPayload, id, st) :
        id \in UpdateIDs, st \in UpdateStatuses}

BadCommands ==
    {Command(CreatePrinter, BadPayload, "", ""),
     Command(CreateFilament, BadPayload, "", ""),
     Command(CreatePrintJob, BadPayload, "", ""),
     Command("DELETE_PRINTER", BadPayload, "", "")}

Commands ==
    PrinterCommands \cup FilamentCommands \cup PrintJobCommands
        \cup UpdateCommands \cup BadCommands

\* Two successive readings of a local clock, where the handler reads it.
Clocks == {c \in Times \X Times : c[1] <= c[2]}
ReadsClock(cmd) == cmd.Type \in {CreatePrintJob, UpdatePrintJob}
ClocksFor(cmd) == IF ReadsClock(cmd) THEN Clocks ELSE {<<ZeroTime, ZeroTime>>}

(***************************************************************************)
(* Spec: one FSM, its snapshots, and a fresh FSM restored from them        *)
(***************************************************************************)
\* snapshot: the handle (store), the store it was taken of and the log index
\* it was taken at. sink: the bytes persisted and the log
\* index reached when they were written. restored: the second FSM, the
\* store the last snapshot restored on it was taken of, the log index it has
\* reached, and whether Restore was its last step.
NoSnapshot == [taken |-> FALSE, store |-> NewStore, of |-> NewStore, index |-> 0]
EmptySink == [written |-> FALSE, data |-> Persist(NewStore), index |-> 0]
NotRestored ==
    [done |-> FALSE, store |-> NewStore, of |-> NewStore, applied |-> 0,
     fresh |-> FALSE]

Record(hist, r) ==
    IF r.allocated = "" THEN hist
    ELSE [hist EXCEPT ![r.allocated] = Append(@, r.id)]

\* raft delivers one committed entry to FSM.Apply.
FSMApply(cmd, clock) ==
    /\ LET r == Apply(store, cmd, clock[1], clock[2])
       IN /\ store' = r.store
          /\ emitted' = Record(emitted, r)
    /\ nApplied' = nApplied + 1
    /\ UNCHANGED <<snapshot, sink, restored>>

\* raft calls FSM.Snapshot; the handle gets a sink of its own.
FSMSnapshot ==
    /\ snapshot' = [taken |-> TRUE, store |-> Snapshot(store), of |-> store,
                    index |-> nApplied]
    /\ sink' = EmptySink
    /\ UNCHANGED <<store, nApplied, emitted, restored>>

\* raft calls Persist on the handle; the sink records the log index the FSM
\* has reached by then.
FSMPersistOfLiveStore ==
    /\ snapshot.taken
    /\ ~sink.written
    /\ sink' = [written |-> TRUE, data |-> Persist(store), index |-> nApplied]
    /\ UNCHANGED <<store, nApplied, emitted, snapshot, restored>>

FSMPersist ==
    /\ snapshot.taken
    /\ ~sink.written
    /\ sink' = [written |-> TRUE, data |-> Persist(snapshot.store),
                index |-> nApplied]
    /\ UNCHANGED <<store, nApplied, emitted, snapshot, restored>>

\* raft calls FSM.Restore on the second FSM with the persisted bytes: when it
\* starts, or when it lags behind the snapshot.
FSMRestore ==
    /\ sink.written
    /\ \/ ~restored.done /\ restored.applied = 0
       \/ snapshot.index > restored.applied
    /\ restored' = [done |-> TRUE, store |-> Restore(sink.data), of |-> snapshot.of,
                    applied |-> snapshot.index, fresh |-> TRUE]
    /\ UNCHANGED <<store, nApplied, emitted, snapshot, sink>>

\* raft delivers the next committed entry to the second FSM.
FSMReplay(cmd, clock) ==
    /\ restored' = [restored EXCEPT
                       !.store = Apply(@, cmd, clock[1], clock[2]).store,
                       !.applied = @ + 1,
                       !.fresh = FALSE]
    /\ UNCHANGED <<store, nApplied, emitted, snapshot, sink>>

InitFSM ==
    /\ store = NewStore
    /\ nApplied = 0
    /\ emitted = [k \in Kinds |-> <<>>]
    /\ snapshot = NoSnapshot
    /\ sink = EmptySink
    /\ restored = NotRestored

InitRaft ==
    /\ nodes = <<>>
    /\ log = <<>>
    /\ resp = <<>>

InitKV == kv = NewKV

InitRaft3D == reqs = <<>>

\* No call of a state-free function is under study.
NoCall ==
    [fn |-> "", args |-> <<>>, todo |-> {}, overlapped |-> FALSE,
     returned |-> FALSE, result |-> ""]
InitCall == call = NoCall

\* The process after main has started its servers: it waits for a signal,
\* the HTTP server listens, and the Raft adapter and its stores are open.
NewProc ==
    [pc |-> "waiting", signal |-> "", http |-> "listening", raft |-> "running",
     bolt |-> "open", served |-> 0, inFlight |-> 0]
InitProc == proc = NewProc

Init == program = "store" /\ InitFSM /\ InitRaft /\ InitKV /\ InitCall /\ InitProc /\ InitRaft3D

ApplyEntry ==
    /\ nApplied < MaxCmds
    /\ \E cmd \in Commands : \E clock \in ClocksFor(cmd) : FSMApply(cmd, clock)
    /\ UNCHANGED <<program, proc, call, reqs, raftVars, kv>>

Next == ApplyEntry

Spec == Init /\ [][Next]_vars

(***************************************************************************)
(* SpecSnap: the same FSM with FSM.Snapshot, Persist and FSM.Restore       *)
(* interleaved with Apply, on a narrower command stream.                   *)
(***************************************************************************)
SnapCommands ==
    {Command(CreatePrinter, Payload(Printer("", "Creality")), "", ""),
     Command(CreateFilament, Payload(Filament("", 2, 0)), "", ""),
     Command(CreateFilament, Payload(Filament("1", -1, 0)), "", ""),
     Command(CreatePrintJob, Payload(PrintJob("", "1", "1", 1, "")), "", ""),
     Command(CreatePrintJob, Payload(PrintJob("1", "1", "1", -1, "")), "", ""),
     Command(UpdatePrintJob, BadPayload, "1", Running)}

\* The same four steps on the key-value FSM.
KVFSMApply(cmd) ==
    /\ kv.nOps < MaxKVOps
    /\ kv' = [kv EXCEPT !.data = KVApply(kv.data, cmd).data, !.nOps = @ + 1]

KVFSMSnapshot ==
    kv' = [kv EXCEPT
              !.snapshot = [taken |-> TRUE, data |-> KVSnapshot(kv.data),
                            of |-> kv.data],
              !.sink = [written |-> FALSE, data |-> {}, nOps |-> 0]]

KVFSMPersist ==
    /\ kv.snapshot.taken
    /\ ~kv.sink.written
    /\ kv' = [kv EXCEPT
                 !.sink = [written |-> TRUE, data |-> KVPersist(kv.snapshot.data),
                           nOps |-> kv.nOps]]

KVFSMRestore ==
    /\ kv.sink.written
    /\ kv' = [kv EXCEPT
                 !.restored = [done |-> TRUE, data |-> KVRestore(kv.sink.data),
                               of |-> kv.snapshot.of]]

InitSnap ==
    program \in {"store", "raft3d"} /\ InitFSM /\ InitRaft /\ InitKV /\ InitCall /\ InitProc /\ InitRaft3D

SnapApply ==
    /\ program = "store"
    /\ nApplied < MaxSnapCmds
    /\ \E cmd \in SnapCommands : \E clock \in ClocksFor(cmd) :
           FSMApply(cmd, clock) /\ log' = Append(log, cmd)
    /\ UNCHANGED <<program, proc, call, reqs, nodes, resp, kv>>

SnapSnapshot ==
    program = "store" /\ FSMSnapshot /\ UNCHANGED <<program, proc, call, reqs, raftVars, kv>>

SnapPersist ==
    program = "store" /\ FSMPersist /\ UNCHANGED <<program, proc, call, reqs, raftVars, kv>>

SnapRestore ==
    program = "store" /\ FSMRestore /\ UNCHANGED <<program, proc, call, reqs, raftVars, kv>>

SnapReplay ==
    /\ program = "store"
    /\ restored.applied < Len(log)
    /\ LET cmd == log[restored.applied + 1]
       IN \E clock \in ClocksFor(cmd) : FSMReplay(cmd, clock)
    /\ UNCHANGED <<program, proc, call, reqs, raftVars, kv>>

SnapKVApply ==
    /\ program = "raft3d"
    /\ \E cmd \in KVCommands : KVFSMApply(cmd)
    /\ UNCHANGED <<program, proc, call, reqs, fsmVars, raftVars>>

SnapKVSnapshot ==
    program = "raft3d" /\ KVFSMSnapshot /\ UNCHANGED <<program, proc, call, reqs, fsmVars, raftVars>>

SnapKVPersist ==
    program = "raft3d" /\ KVFSMPersist /\ UNCHANGED <<program, proc, call, reqs, fsmVars, raftVars>>

SnapKVRestore ==
    program = "raft3d" /\ KVFSMRestore /\ UNCHANGED <<program, proc, call, reqs, fsmVars, raftVars>>

NextSnap ==
    \/ SnapApply
    \/ SnapSnapshot
    \/ SnapPersist
    \/ SnapRestore
    \/ SnapReplay
    \/ SnapKVApply
    \/ SnapKVSnapshot
    \/ SnapKVPersist
    \/ SnapKVRestore

SpecSnap == InitSnap /\ [][NextSnap]_vars

(***************************************************************************)
(* SpecRaft: two nodes of one program, one committed log.                  *)
(*                                                                         *)
(* The Raft library elects leaders, commits the entries the leader submits *)
(* and hands each node's FSM the committed entries in log order. The       *)
(* gateway of a node answers a write after RaftServer.ApplyCommand (store) *)
(* or RaftStore.Set / RaftStore.Delete (raft3d) returns.                   *)
(***************************************************************************)
Nodes == {"n1", "n2"}
RaftAddr(n) ==
    CASE n = "n1" -> "127.0.0.1:7001"
      [] n = "n2" -> "127.0.0.1:7002"
      [] OTHER -> "127.0.0.1:7003"

Leader == "Leader"
Follower == "Follower"

\* A node: raft.State(), raft.Leader(), the typed FSM's store, the key-value
\* FSM's data and the index of the last entry its FSM applied.
NewNode ==
    [state |-> Follower, leader |-> "", store |-> NewStore, data |-> EmptyMap,
     applied |-> 0]

RaftCommands ==
    {Command(CreatePrinter, Payload(Printer("", "Creality")), "", ""),
     Command(CreatePrinter, Payload(Printer("", "")), "", ""),
     Command(CreatePrinter, BadPayload, "", ""),
     Command(CreateFilament, Payload(Filament("", 2, 0)), "", ""),
     Command(CreatePrintJob, Payload(PrintJob("", "1", "1", 2, "")), "", ""),
     Command(UpdatePrintJob, BadPayload, "1", Canceled)}

RaftKVCommands ==
    {KVCommand("set", "printer_1", v) : v \in KVValues} \cup
    {KVCommand("delete", "printer_1", "")}

\* What the local clock of a node may read while its FSM applies an entry.
ClocksOf(n, cmd) ==
    IF ~ReadsClock(cmd) THEN {<<ZeroTime, ZeroTime>>}
    ELSE IF n = "n1" THEN {<<1, 1>>} ELSE {<<1, 1>>, <<2, 2>>}

\* RaftServer.IsLeader and RaftServer.GetLeader.
IsLeader(n) == nodes[n].state = Leader
GetLeader(n) == nodes[n].leader

ErrNotLeader == "not the leader"
ErrKVNotLeader == "not leader"

\* The answer to a write: the node that answered, the error the write
\* operation returned, the HTTP status and the body as the set of its members
\* (a plain-text body has the one member "text").
Response(n, err, code, body) ==
    [node |-> n, err |-> err, code |-> code, body |-> body]
NoResponse == Response("", NoError, 0, {})
ErrorBody(msg) == {<<"error", msg>>}
ResultBody(id) == {<<"id", id>>}
TextBody(text) == {<<"text", text>>}
ErrStorePrinter == "Failed to store printer data"

StatusCreated == 201
StatusOK == 200
StatusInternalServerError == 500

\* RaftServer.ApplyCommand on node n: the entry appended (if any), the FSM's
\* answer, and the error returned.
ApplyCommandWithoutLeaderCheck(n, cmd, clock) ==
    LET r == Apply(nodes[n].store, cmd, clock[1], clock[2])
    IN [appended |-> TRUE, store |-> r.store, err |-> r.err.msg, id |-> r.id]

ApplyCommandAnswersBeforeApply(n, cmd, clock) ==
    IF ~IsLeader(n)
    THEN [appended |-> FALSE, store |-> nodes[n].store, err |-> ErrNotLeader,
          id |-> ""]
    ELSE LET r == Apply(nodes[n].store, cmd, clock[1], clock[2])
         IN [appended |-> TRUE, store |-> nodes[n].store, err |-> r.err.msg,
             id |-> r.id]

ApplyCommand(n, cmd, clock) ==
    IF ~IsLeader(n)
    THEN [appended |-> FALSE, store |-> nodes[n].store, err |-> ErrNotLeader,
          id |-> ""]
    ELSE LET r == Apply(nodes[n].store, cmd, clock[1], clock[2])
         IN [appended |-> TRUE, store |-> r.store, err |-> r.err.msg, id |-> r.id]

\* RaftStore.Set and RaftStore.Delete on node n.
KVWrite(n, cmd) ==
    IF nodes[n].state # Leader
    THEN [appended |-> FALSE, data |-> nodes[n].data, err |-> ErrKVNotLeader]
    ELSE [appended |-> TRUE, data |-> KVApply(nodes[n].data, cmd).data,
          err |-> NoError]

\* The handlers of api/handlers.go that write: bind the body, wrap it in a
\* Command, call ApplyCommand and answer 500 with the error or 201/200 with
\* the result.
SuccessCode(cmd) == IF cmd.Type = UpdatePrintJob THEN StatusOK ELSE StatusCreated

\* c.ShouldBindJSON: the body of a create request is decoded into the struct;
\* the structs carry no binding tags, so only a body that is not JSON of the
\* struct's shape fails. The status update has no body.
ErrBindJSON == "invalid character"
ShouldBindJSON(cmd) ==
    IF cmd.Type # UpdatePrintJob /\ ~cmd.Data.valid THEN ErrBindJSON ELSE NoError

StatusBadRequest == 400

GatewayWrite(n, cmd) ==
    /\ program = "store"
    /\ IF ShouldBindJSON(cmd) # NoError
       THEN /\ resp' = Response(n, ErrBindJSON, StatusBadRequest,
                                ErrorBody(ErrBindJSON))
            /\ UNCHANGED <<log, nodes>>
       ELSE /\ IsLeader(n) => Len(log) < MaxLog /\ nodes[n].applied = Len(log)
            /\ \E clock \in ClocksOf(n, cmd) :
                   LET r == ApplyCommand(n, cmd, clock)
                   IN /\ log' = IF r.appended THEN Append(log, cmd) ELSE log
                      /\ nodes' = [nodes EXCEPT
                                      ![n].store = r.store,
                                      ![n].applied = IF r.appended THEN @ + 1 ELSE @]
                      /\ resp' = IF r.err # NoError
                                 THEN Response(n, r.err, StatusInternalServerError,
                                               ErrorBody(r.err))
                                 ELSE Response(n, NoError, SuccessCode(cmd),
                                               ResultBody(r.id))
    /\ UNCHANGED <<program, proc, call, reqs, fsmVars, kv>>

\* A write of the raft3d program on node n. handlePostPrinter calls
\* RaftStore.Set and answers 500 with a fixed text when it fails, 201 with the
\* request body otherwise; RaftStore.Delete has no HTTP caller and is called
\* directly.
GatewayKVWrite(n, cmd) ==
    /\ program = "raft3d"
    /\ nodes[n].state = Leader => Len(log) < MaxLog /\ nodes[n].applied = Len(log)
    /\ LET r == KVWrite(n, cmd)
       IN /\ log' = IF r.appended THEN Append(log, cmd) ELSE log
          /\ nodes' = [nodes EXCEPT
                          ![n].data = r.data,
                          ![n].applied = IF r.appended THEN @ + 1 ELSE @]
          /\ resp' = IF cmd.Op # "set" THEN Response(n, r.err, 0, {})
                     ELSE IF r.err # NoError
                     THEN Response(n, r.err, StatusInternalServerError,
                                   TextBody(ErrStorePrinter))
                     ELSE Response(n, NoError, StatusCreated, TextBody(cmd.Value))
    /\ UNCHANGED <<program, proc, call, reqs, fsmVars, kv>>

RaftApplyEntryOutOfOrder(n) ==
    /\ nodes[n].applied < Len(log)
    /\ LET cmd == log[Len(log)]
       IN IF program = "store"
          THEN \E clock \in ClocksOf(n, cmd) :
                   nodes' = [nodes EXCEPT
                                ![n].store = Apply(@, cmd, clock[1], clock[2]).store,
                                ![n].applied = @ + 1]
          ELSE nodes' = [nodes EXCEPT
                            ![n].data = KVApply(@, cmd).data,
                            ![n].applied = @ + 1]
    /\ UNCHANGED <<program, proc, call, reqs, fsmVars, log, resp, kv>>

\* raft hands node n's FSM the next committed entry.
RaftApplyEntry(n) ==
    /\ nodes[n].applied < Len(log)
    /\ LET cmd == log[nodes[n].applied + 1]
       IN IF program = "store"
          THEN \E clock \in ClocksOf(n, cmd) :
                   nodes' = [nodes EXCEPT
                                ![n].store = Apply(@, cmd, clock[1], clock[2]).store,
                                ![n].applied = @ + 1]
          ELSE nodes' = [nodes EXCEPT
                            ![n].data = KVApply(@, cmd).data,
                            ![n].applied = @ + 1]
    /\ UNCHANGED <<program, proc, call, reqs, fsmVars, log, resp, kv>>

\* The library's elections: a node wins when there is no leader; a leader
\* steps down; a follower hears from the leader.
RaftElect(n) ==
    /\ \A m \in Nodes : nodes[m].state # Leader
    /\ nodes' = [nodes EXCEPT ![n].state = Leader, ![n].leader = RaftAddr(n)]
    /\ UNCHANGED <<program, proc, call, reqs, fsmVars, log, resp, kv>>

RaftStepDown(n) ==
    /\ nodes[n].state = Leader
    /\ nodes' = [nodes EXCEPT ![n].state = Follower, ![n].leader = ""]
    /\ UNCHANGED <<program, proc, call, reqs, fsmVars, log, resp, kv>>

RaftHeartbeat(n, m) ==
    /\ nodes[n].state = Leader
    /\ m # n
    /\ nodes[m].leader # RaftAddr(n)
    /\ nodes' = [nodes EXCEPT ![m].leader = RaftAddr(n)]
    /\ UNCHANGED <<program, proc, call, reqs, fsmVars, log, resp, kv>>

InitCluster ==
    /\ program \in {"store", "raft3d"}
    /\ InitFSM
    /\ InitKV /\ InitCall /\ InitProc
    /\ InitRaft3D
    /\ nodes = [n \in Nodes |-> NewNode]
    /\ log = <<>>
    /\ resp = NoResponse

NextRaft ==
    \/ \E n \in Nodes, cmd \in RaftCommands : GatewayWrite(n, cmd)
    \/ \E n \in Nodes, cmd \in RaftKVCommands : GatewayKVWrite(n, cmd)
    \/ \E n \in Nodes : RaftApplyEntry(n)
    \/ \E n \in Nodes : RaftElect(n)
    \/ \E n \in Nodes : RaftStepDown(n)
    \/ \E n, m \in Nodes : RaftHeartbeat(n, m)

SpecRaft == InitCluster /\ [][NextRaft]_vars

\* The cluster of the store program under fair delivery: an entry of the log
\* that a node has not applied is eventually handed to its FSM. The clients
\* create a printer, a filament and a print job.
FairCommands ==
    {Command(CreatePrinter, Payload(Printer("", "Creality")), "", ""),
     Command(CreateFilament, Payload(Filament("", 2, 0)), "", ""),
     Command(CreatePrintJob, Payload(PrintJob("", "1", "1", 2, "")), "", "")}

InitStoreCluster == InitCluster /\ program = "store"

NextRaftFair ==
    \/ \E n \in Nodes, cmd \in FairCommands : GatewayWrite(n, cmd)
    \/ \E n \in Nodes : RaftApplyEntry(n)
    \/ \E n \in Nodes : RaftElect(n)
    \/ \E n \in Nodes : RaftStepDown(n)
    \/ \E n, m \in Nodes : RaftHeartbeat(n, m)

SpecRaftFair ==
    InitStoreCluster /\ [][NextRaftFair]_vars
        /\ \A n \in Nodes : WF_vars(RaftApplyEntry(n))

(***************************************************************************)
(* SpecApi: the HTTP API of the raft3d program (raft3d/api/handlers.go).   *)
(*                                                                         *)
(* net/http runs each request in a goroutine of its own; Handlers are the  *)
(* goroutines that can run at once on the serving node. A handler reads    *)
(* the key-value FSM (RaftStore.Get / List), decides, and then writes with *)
(* RaftStore.Set; its reads are one step and each Set is one step. A value *)
(* is the JSON text of a struct of raft3d/api/models.go, represented by    *)
(* the struct.                                                             *)
(***************************************************************************)
Handlers == {"h1", "h2"}
ApiNode == "n1"

ApiPrinter(id, name) == [id |-> id, name |-> name]
ApiFilament(id, type, total, remaining) ==
    [id |-> id, name |-> "spool", type |-> type,
     total_weight_in_grams |-> total, remaining_weight_in_grams |-> remaining]
ApiPrintJob(id, printerID, filamentID, filepath, weight, status) ==
    [id |-> id, printer_id |-> printerID, filament_id |-> filamentID,
     filepath |-> filepath, print_weight_in_grams |-> weight, status |-> status]

PrinterKey(id) == "printer_" \o id
FilamentKey(id) == "filament_" \o id
PrintJobKey(id) == "printjob_" \o id

ApiJobIDs == {"1", "2"}

\* A request: the route and what its body or its path and query carry.
Request(route, body, id, status) ==
    [route |-> route, body |-> body, id |-> id, status |-> status]

ApiRequests ==
    {Request("POST /printers", Payload(ApiPrinter("1", "mk3")), "", ""),
     Request("POST /filaments", Payload(ApiFilament("1", "PLA", 2, 0)), "", ""),
     Request("POST /filaments", Payload(ApiFilament("1", "WOOD", 2, 0)), "", ""),
     Request("POST /print_jobs",
             Payload(ApiPrintJob("1", "1", "1", "a.gcode", 2, "")), "", ""),
     Request("POST /print_jobs",
             Payload(ApiPrintJob("2", "1", "1", "a.gcode", 1, "")), "", ""),
     Request("POST /print_jobs",
             Payload(ApiPrintJob("2", "1", "1", "a.gcode", 0, "")), "", ""),
     Request("POST /print_jobs", BadPayload, "", ""),
     Request("POST /print_jobs/{id}/status", BadPayload, "1", Running),
     Request("POST /print_jobs/{id}/status", BadPayload, "1", Done),
     Request("POST /print_jobs/{id}/status", BadPayload, "2", "Paused")}

StatusNotFound == 404

\* A handler goroutine: where it stands, the request it serves, the status
\* it answered (0 while it has not), the number of entries it has submitted
\* with RaftStore.Set, and its local variables.
HandlerAt(pc, req, code, entries, printJob, filament) ==
    [pc |-> pc, req |-> req, code |-> code, entries |-> entries,
     printJob |-> printJob, filament |-> filament]
NoRequest == Request("", BadPayload, "", "")
IdleHandler == HandlerAt("idle", NoRequest, 0, 0, <<>>, <<>>)
OffHandler == HandlerAt("off", NoRequest, 0, 0, <<>>, <<>>)
Answered(req, code, entries) == HandlerAt("done", req, code, entries, <<>>, <<>>)

\* ValidateFilamentType and ValidatePrintJobStatusTransition of
\* raft3d/api/models.go.
ValidateFilamentType(filamentType) == filamentType \in {"PLA", "PETG", "ABS", "TPU"}

ApiValidateTransition(currentStatus, newStatus) ==
    CASE currentStatus = Queued -> newStatus \in {Running, Canceled}
      [] currentStatus = Running -> newStatus \in {Done, Canceled}
      [] OTHER -> FALSE

\* calculateAllocatedFilamentWeight: the weights of the Queued and Running
\* jobs on the filament, over the keys List("printjob_") returns.
ApiJobsOf(data) ==
    [id \in {i \in ApiJobIDs : PrintJobKey(i) \in DOMAIN data} |->
        [PrintWeightInGrams |-> data[PrintJobKey(id)].print_weight_in_grams]]

calculateAllocatedFilamentWeight(data, filamentID) ==
    SumWeights(ApiJobsOf(data),
               {id \in DOMAIN ApiJobsOf(data) :
                   /\ data[PrintJobKey(id)].filament_id = filamentID
                   /\ data[PrintJobKey(id)].status \in {Queued, Running}})

\* RaftStore.Set on the serving node, as a step: the entry is appended and
\* applied to the node's FSM, or the call fails and changes nothing.
\* The log is explored to MaxApiLog entries when both handlers serve, to
\* MaxSerialLog entries when one handler serves the requests one by one.
ApiLogBound ==
    IF \A h \in Handlers : reqs[h].pc # "off" THEN MaxApiLog ELSE MaxSerialLog

ApiSet(key, value, ok) ==
    LET r == KVWrite(ApiNode, KVCommand("set", key, value))
    IN /\ r.appended => Len(log) < ApiLogBound
       /\ ok = (r.err = NoError)
       /\ log' = IF r.appended THEN Append(log, KVCommand("set", key, value)) ELSE log
       /\ nodes' = [nodes EXCEPT
                       ![ApiNode].data = r.data,
                       ![ApiNode].applied = IF r.appended THEN @ + 1 ELSE @]

ApiData == nodes[ApiNode].data
Free(h) == reqs[h].pc \in {"idle", "done"}
ApiUnchanged == UNCHANGED <<program, proc, call, fsmVars, resp, kv>>

\* handlePostPrinter.
handlePostPrinter(h, req) ==
    /\ Free(h)
    /\ req.route = "POST /printers"
    /\ IF ~req.body.valid \/ req.body.v.id = "" \/ req.body.v.name = ""
       THEN /\ reqs' = [reqs EXCEPT ![h] = Answered(req, StatusBadRequest, 0)]
            /\ UNCHANGED <<nodes, log>>
       ELSE \E ok \in BOOLEAN :
                /\ ApiSet(PrinterKey(req.body.v.id), req.body.v, ok)
                /\ reqs' = [reqs EXCEPT ![h] =
                                IF ok THEN Answered(req, StatusCreated, 1)
                                ELSE Answered(req, StatusInternalServerError, 0)]
    /\ ApiUnchanged

\* handlePostFilament.
handlePostFilament(h, req) ==
    /\ Free(h)
    /\ req.route = "POST /filaments"
    /\ IF \/ ~req.body.valid
          \/ req.body.v.id = "" \/ req.body.v.name = ""
          \/ ~ValidateFilamentType(req.body.v.type)
       THEN /\ reqs' = [reqs EXCEPT ![h] = Answered(req, StatusBadRequest, 0)]
            /\ UNCHANGED <<nodes, log>>
       ELSE LET filament ==
                    IF req.body.v.remaining_weight_in_grams = 0
                    THEN [req.body.v EXCEPT !.remaining_weight_in_grams =
                                                req.body.v.total_weight_in_grams]
                    ELSE req.body.v
            IN \E ok \in BOOLEAN :
                   /\ ApiSet(FilamentKey(filament.id), filament, ok)
                   /\ reqs' = [reqs EXCEPT ![h] =
                                   IF ok THEN Answered(req, StatusCreated, 1)
                                   ELSE Answered(req, StatusInternalServerError, 0)]
    /\ ApiUnchanged

\* handlePostPrintJob up to its RaftStore.Set: the body is validated, the
\* printer and the filament are read and the budget is checked against the
\* jobs the FSM holds now.
handlePostPrintJobCheck(h, req) ==
    /\ Free(h)
    /\ req.route = "POST /print_jobs"
    /\ LET job == req.body.v
           rejected ==
               \/ ~req.body.valid
               \/ job.id = "" \/ job.printer_id = "" \/ job.filament_id = ""
               \/ job.filepath = "" \/ job.print_weight_in_grams <= 0
               \/ PrinterKey(job.printer_id) \notin DOMAIN ApiData
               \/ FilamentKey(job.filament_id) \notin DOMAIN ApiData
               \/ ApiData[FilamentKey(job.filament_id)].remaining_weight_in_grams
                      - calculateAllocatedFilamentWeight(ApiData, job.filament_id)
                    < job.print_weight_in_grams
       IN reqs' = [reqs EXCEPT ![h] =
                      IF rejected THEN Answered(req, StatusBadRequest, 0)
                      ELSE HandlerAt("set", req, 0, 0,
                                     [job EXCEPT !.status = Queued], <<>>)]
    /\ UNCHANGED <<nodes, log>>
    /\ ApiUnchanged

\* handlePostPrintJob: its RaftStore.Set and the answer.
handlePostPrintJobSet(h) ==
    /\ reqs[h].pc = "set"
    /\ \E ok \in BOOLEAN :
           /\ ApiSet(PrintJobKey(reqs[h].printJob.id), reqs[h].printJob, ok)
           /\ reqs' = [reqs EXCEPT ![h] =
                           IF ok THEN Answered(reqs[h].req, StatusCreated, 1)
                           ELSE Answered(reqs[h].req, StatusInternalServerError, 0)]
    /\ ApiUnchanged

\* handleUpdatePrintJobStatus up to its first RaftStore.Set: the status is
\* validated, the job read and the transition checked; for Done the filament
\* is read and its remaining weight reduced in the handler.
handleUpdatePrintJobStatusCheck(h, req) ==
    /\ Free(h)
    /\ req.route = "POST /print_jobs/{id}/status"
    /\ LET jobKey == PrintJobKey(req.id)
           newStatus == req.status
       IN reqs' = [reqs EXCEPT ![h] =
              IF newStatus \notin {Running, Done, Canceled}
              THEN Answered(req, StatusBadRequest, 0)
              ELSE IF jobKey \notin DOMAIN ApiData
              THEN Answered(req, StatusNotFound, 0)
              ELSE IF ~ApiValidateTransition(ApiData[jobKey].status, newStatus)
              THEN Answered(req, StatusBadRequest, 0)
              ELSE LET printJob == [ApiData[jobKey] EXCEPT !.status = newStatus]
                       filamentKey == FilamentKey(printJob.filament_id)
                   IN IF newStatus # Done
                      THEN HandlerAt("setJob", req, 0, 0, printJob, <<>>)
                      ELSE IF filamentKey \notin DOMAIN ApiData
                      THEN Answered(req, StatusInternalServerError, 0)
                      ELSE LET left ==
                                   ApiData[filamentKey].remaining_weight_in_grams
                                       - printJob.print_weight_in_grams
                           IN HandlerAt("setFilament", req, 0, 0, printJob,
                                        [ApiData[filamentKey] EXCEPT
                                            !.remaining_weight_in_grams =
                                                IF left < 0 THEN 0 ELSE left])]
    /\ UNCHANGED <<nodes, log>>
    /\ ApiUnchanged

\* handleUpdatePrintJobStatus: RaftStore.Set of the filament.
handleUpdatePrintJobStatusSetFilament(h) ==
    /\ reqs[h].pc = "setFilament"
    /\ \E ok \in BOOLEAN :
           /\ ApiSet(FilamentKey(reqs[h].filament.id), reqs[h].filament, ok)
           /\ reqs' = [reqs EXCEPT ![h] =
                           IF ok THEN HandlerAt("setJob", reqs[h].req, 0, 1,
                                                reqs[h].printJob, <<>>)
                           ELSE Answered(reqs[h].req, StatusInternalServerError, 0)]
    /\ ApiUnchanged

\* handleUpdatePrintJobStatus: RaftStore.Set of the job and the answer.
handleUpdatePrintJobStatusSetJob(h) ==
    /\ reqs[h].pc = "setJob"
    /\ \E ok \in BOOLEAN :
           /\ ApiSet(PrintJobKey(reqs[h].printJob.id), reqs[h].printJob, ok)
           /\ reqs' = [reqs EXCEPT ![h] =
                           IF ok THEN Answered(reqs[h].req, StatusOK,
                                               reqs[h].entries + 1)
                           ELSE Answered(reqs[h].req, StatusInternalServerError,
                                         reqs[h].entries)]
    /\ ApiUnchanged

\* The serving node wins an election or loses its leadership.
ApiElect == RaftElect(ApiNode)
ApiStepDown == RaftStepDown(ApiNode)

InitApi ==
    /\ program = "raft3d"
    /\ InitFSM
    /\ InitKV /\ InitCall /\ InitProc
    /\ nodes = [n \in Nodes |-> NewNode]
    /\ log = <<>>
    /\ resp = NoResponse
    /\ reqs = [h \in Handlers |-> IdleHandler]

NextApi ==
    \/ \E h \in Handlers, req \in ApiRequests : handlePostPrinter(h, req)
    \/ \E h \in Handlers, req \in ApiRequests : handlePostFilament(h, req)
    \/ \E h \in Handlers, req \in ApiRequests : handlePostPrintJobCheck(h, req)
    \/ \E h \in Handlers : handlePostPrintJobSet(h)
    \/ \E h \in Handlers, req \in ApiRequests :
           handleUpdatePrintJobStatusCheck(h, req)
    \/ \E h \in Handlers : handleUpdatePrintJobStatusSetFilament(h)
    \/ \E h \in Handlers : handleUpdatePrintJobStatusSetJob(h)
    \/ ApiElect
    \/ ApiStepDown

SpecApi == InitApi /\ [][NextApi]_vars

\* The same server with a single handler started: the requests are served
\* one after the other.
SerialHandlers == {"h1"}

InitApiSerial ==
    /\ program = "raft3d"
    /\ InitFSM
    /\ InitKV /\ InitCall /\ InitProc
    /\ nodes = [n \in Nodes |-> NewNode]
    /\ log = <<>>
    /\ resp = NoResponse
    /\ reqs = [h \in Handlers |->
                  IF h \in SerialHandlers THEN IdleHandler ELSE OffHandler]

SpecApiSerial == InitApiSerial /\ [][NextApi]_vars

(***************************************************************************)
(* SpecValidate: the two status-transition validators, each called once on *)
(* a pair of strings.                                                      *)
(***************************************************************************)
\* The strings the validators are called on: the four statuses and strings
\* that are none of them.
StatusValues ==
    {Queued, Running, Done, Canceled, "Paused", "", "queued", "Completed"}

ModelsValidator == "models.ValidatePrintJobStatusTransition"
ApiValidator == "api.ValidatePrintJobStatusTransition"

Call(fn, args) == [NoCall EXCEPT !.fn = fn, !.args = args]
Returned(c, result) == [c EXCEPT !.returned = TRUE, !.result = result]

ErrInvalidTransition == "invalid status transition"

\* models.ValidatePrintJobStatusTransition returns.
ModelsValidate ==
    /\ call.fn = ModelsValidator
    /\ ~call.returned
    /\ call' = Returned(call, ValidatePrintJobStatusTransition(call.args[1],
                                                               call.args[2]))
    /\ UNCHANGED <<program, proc, reqs, fsmVars, raftVars, kv>>

\* api.ValidatePrintJobStatusTransition (raft3d) returns.
ApiValidate ==
    /\ call.fn = ApiValidator
    /\ ~call.returned
    /\ call' = Returned(call, IF ApiValidateTransition(call.args[1], call.args[2])
                              THEN NoError ELSE ErrInvalidTransition)
    /\ UNCHANGED <<program, proc, reqs, fsmVars, raftVars, kv>>

InitValidate ==
    /\ call \in {Call(fn, <<currentStatus, newStatus>>) :
                     fn \in {ModelsValidator, ApiValidator},
                     currentStatus \in StatusValues, newStatus \in StatusValues}
    /\ program = IF call.fn = ModelsValidator THEN "store" ELSE "raft3d"
    /\ InitFSM /\ InitRaft /\ InitKV /\ InitProc /\ InitRaft3D

NextValidate == ModelsValidate \/ ApiValidate

SpecValidate == InitValidate /\ [][NextValidate]_vars

(***************************************************************************)
(* SpecRead: one listing request served while entries are applied. In the  *)
(* store program the handler takes the store from FSM.GetStore, which      *)
(* holds the shared lock only until it returns the pointer, and then       *)
(* ranges over the maps. In raft3d the handler lists the keys and gets     *)
(* each of them, every call under the shared lock of its own.              *)
(***************************************************************************)
GetPrinters == "Handler.GetPrinters"
GetPrintJobs == "Handler.GetPrintJobs"
handleGetPrintJobs == "Server.handleGetPrintJobs"

\* The status query values: none, the statuses, and strings near one.
StatusQueries == {"", Queued, Running, Done, "queued", "Que"}

ReadCommands ==
    {Command(CreatePrinter, Payload(Printer("", "Creality")), "", ""),
     Command(CreateFilament, Payload(Filament("", 2, 0)), "", ""),
     Command(CreatePrintJob, Payload(PrintJob("", "1", "1", 1, "")), "", "")} \cup
    {Command(UpdatePrintJob, BadPayload, id, st) :
        id \in UpdateIDs, st \in {Running, Done, Canceled}}

ReadKVCommands ==
    {KVCommand("set", PrintJobKey(j.id), j) :
        j \in {ApiPrintJob("1", "1", "1", "a.gcode", 1, Queued),
               ApiPrintJob("1", "1", "1", "a.gcode", 1, Done),
               ApiPrintJob("2", "1", "1", "a.gcode", 1, Running)}} \cup
    {KVCommand("set", PrinterKey("1"), ApiPrinter("1", "Creality")),
     KVCommand("delete", PrintJobKey("1"), "")}

InFlight == call.fn # "" /\ ~call.returned

\* The loop of Handler.GetPrintJobs over store.PrintJobs; the order of the
\* slice is the order of the map's iteration, so the result is a set.
ListPrintJobsIgnoringStatus(s, status) ==
    {s.PrintJobs[id] : id \in DOMAIN s.PrintJobs}

ListPrintJobs(s, status) ==
    {s.PrintJobs[id] :
        id \in {i \in DOMAIN s.PrintJobs :
                   status = "" \/ s.PrintJobs[i].Status = status}}

\* The loop of Handler.GetPrinters over store.Printers.
ListPrinters(s) == {s.Printers[id] : id \in DOMAIN s.Printers}

FatalConcurrentMap == "fatal error: concurrent map iteration and map write"

\* What a range over a map yields when the map was written meanwhile: the
\* runtime aborts, or the loop sees some of the elements.
RacedRange(elements) == {FatalConcurrentMap} \cup SUBSET elements

\* The map the handler in flight ranges over.
RangedMap(s) == IF call.fn = GetPrinters THEN s.Printers ELSE s.PrintJobs

\* FSM.Apply, which may write the map the handler is ranging over.
ReadApply ==
    /\ program = "store"
    /\ nApplied < MaxCmds
    /\ \E cmd \in ReadCommands : \E clock \in ClocksFor(cmd) : FSMApply(cmd, clock)
    /\ call' = IF InFlight /\ RangedMap(store') # RangedMap(store)
               THEN [call EXCEPT !.overlapped = TRUE] ELSE call
    /\ UNCHANGED <<program, proc, reqs, raftVars, kv, snapshot, sink, restored>>

\* FSM.GetStore: the pointer to the store, the lock released on return.
GetStore(fn, status) ==
    /\ program = "store"
    /\ call = NoCall
    /\ call' = Call(fn, <<status>>)
    /\ UNCHANGED <<program, proc, reqs, fsmVars, raftVars, kv>>

\* The handler's loop over the map and its answer.
RangeAndAnswer ==
    /\ program = "store"
    /\ InFlight
    /\ LET elements == IF call.fn = GetPrinters THEN ListPrinters(store)
                       ELSE ListPrintJobs(store, call.args[1])
       IN \E result \in (IF call.overlapped THEN RacedRange(elements)
                         ELSE {elements}) :
              call' = Returned(call, result)
    /\ UNCHANGED <<program, proc, reqs, fsmVars, raftVars, kv>>

\* FSM.Apply of the key-value FSM.
ReadKVApply ==
    /\ program = "raft3d"
    /\ \E cmd \in ReadKVCommands : KVFSMApply(cmd)
    /\ call' = IF InFlight /\ kv'.data # kv.data
               THEN [call EXCEPT !.overlapped = TRUE] ELSE call
    /\ UNCHANGED <<program, proc, reqs, fsmVars, raftVars>>

IsPrintJobKey(k) == \E id \in ApiJobIDs : k = PrintJobKey(id)

\* Server.handleGetPrintJobs up to s.store.List("printjob_").
handleList(status) ==
    /\ program = "raft3d"
    /\ call = NoCall
    /\ call' = [Call(handleGetPrintJobs, <<status>>) EXCEPT
                   !.todo = {k \in DOMAIN kv.data : IsPrintJobKey(k)},
                   !.result = EmptyMap]
    /\ UNCHANGED <<program, proc, reqs, fsmVars, raftVars, kv>>

\* One turn of its loop: s.store.Get of a listed key; a key that is gone is
\* skipped, and so is a job whose status is not the one asked for.
handleGet(key) ==
    /\ program = "raft3d"
    /\ InFlight
    /\ key \in call.todo
    /\ LET statusFilter == call.args[1]
           skip == \/ key \notin DOMAIN kv.data
                   \/ statusFilter # "" /\ kv.data[key].status # statusFilter
       IN call' = [call EXCEPT
                      !.todo = @ \ {key},
                      !.result = IF skip THEN @
                                 ELSE Put(@, kv.data[key].id, kv.data[key])]
    /\ UNCHANGED <<program, proc, reqs, fsmVars, raftVars, kv>>

\* The loop is over: 200 with the jobs collected.
handleAnswer ==
    /\ program = "raft3d"
    /\ InFlight
    /\ call.todo = {}
    /\ call' = Returned(call, call.result)
    /\ UNCHANGED <<program, proc, reqs, fsmVars, raftVars, kv>>

InitRead ==
    /\ program \in {"store", "raft3d"}
    /\ InitFSM /\ InitRaft /\ InitKV /\ InitCall /\ InitProc /\ InitRaft3D

NextRead ==
    \/ ReadApply
    \/ \E fn \in {GetPrinters, GetPrintJobs} : \E status \in StatusQueries :
           GetStore(fn, IF fn = GetPrinters THEN "" ELSE status)
    \/ RangeAndAnswer
    \/ ReadKVApply
    \/ \E status \in StatusQueries : handleList(status)
    \/ \E key \in {PrintJobKey(id) : id \in ApiJobIDs} : handleGet(key)
    \/ handleAnswer

SpecRead == InitRead /\ [][NextRead]_vars

(***************************************************************************)
(* SpecShutdown: the node's process from the moment main waits for a       *)
(* signal. The HTTP server accepts requests whose handlers call Raft's     *)
(* Apply; a signal arrives; main runs its shutdown steps and returns.      *)
(***************************************************************************)
MaxRequests == 3

Signals == {"SIGINT", "SIGTERM"}

\* signal.Notify: the signals main has asked to receive. Any other signal
\* keeps its default disposition and ends the process at once.
Notified ==
    IF program = "store" THEN {"SIGINT", "SIGTERM"} ELSE {"SIGINT"}

Alive == proc.pc \notin {"exited", "killed"}

ProcUnchanged == UNCHANGED <<program, call, reqs, fsmVars, raftVars, kv>>

\* The HTTP server accepts a request and its handler submits to Raft.
ServeRequest ==
    /\ Alive
    /\ proc.http = "listening"
    /\ proc.served < MaxRequests
    /\ proc' = [proc EXCEPT !.served = @ + 1, !.inFlight = @ + 1]
    /\ ProcUnchanged

\* The handler's Apply returns: committed, or failed on a Raft shut down.
ApplyReturns ==
    /\ Alive
    /\ proc.inFlight > 0
    /\ proc' = [proc EXCEPT !.inFlight = @ - 1]
    /\ ProcUnchanged

Signal(sig) ==
    /\ proc.pc = "waiting"
    /\ proc' = [proc EXCEPT
                   !.signal = sig,
                   !.pc = IF sig \in Notified THEN "signalled" ELSE "killed"]
    /\ ProcUnchanged

\* httpServer.Close() / Server.Stop(): the listener and the connections are
\* closed; main goes on whatever the call returns.
CloseHTTP ==
    /\ proc.pc = "signalled"
    /\ proc' = [proc EXCEPT !.http = "closed", !.pc = "httpClosed"]
    /\ ProcUnchanged

\* RaftStore.Close, called by raft3d's main only: raft.Shutdown and its
\* future, then the BoltDB store, whose Close may fail.
RaftStoreClose ==
    /\ program = "raft3d"
    /\ proc.pc = "httpClosed"
    /\ \E closed \in BOOLEAN :
           proc' = [proc EXCEPT
                       !.raft = "shutdown",
                       !.bolt = IF closed THEN "closed" ELSE @,
                       !.pc = "raftClosed"]
    /\ ProcUnchanged

\* main returns after its last shutdown step.
MainReturns ==
    /\ proc.pc = IF program = "store" THEN "httpClosed" ELSE "raftClosed"
    /\ proc' = [proc EXCEPT !.pc = "exited"]
    /\ ProcUnchanged

InitShutdown ==
    /\ program \in {"store", "raft3d"}
    /\ InitFSM /\ InitRaft /\ InitKV /\ InitCall /\ InitProc /\ InitRaft3D

NextShutdown ==
    \/ ServeRequest
    \/ ApplyReturns
    \/ \E sig \in Signals : Signal(sig)
    \/ CloseHTTP
    \/ RaftStoreClose
    \/ MainReturns

SpecShutdown == InitShutdown /\ [][NextShutdown]_vars

(***************************************************************************)
(* SpecFaults: one call of Persist or of Restore in which reading,         *)
(* encoding, decoding, or the sink's Write or Close may fail.              *)
(***************************************************************************)
\* The stores and key-value data the call finds or is given.
FaultStores ==
    LET s1 == Apply(NewStore,
                    Command(CreatePrinter, Payload(Printer("", "Creality")), "", ""),
                    1, 1).store
        s2 == Apply(s1, Command(CreateFilament, Payload(Filament("", 2, 0)), "", ""),
                    1, 1).store
        s3 == Apply(s2,
                    Command(CreatePrintJob, Payload(PrintJob("", "1", "1", 1, "")),
                            "", ""),
                    1, 2).store
    IN {NewStore, s1, s2, s3}

FaultData ==
    {EmptyMap, Put(EmptyMap, "printer_1", "v1"),
     Put(Put(EmptyMap, "printer_1", "v1"), "printjob_1", "v2"),
     Put(EmptyMap, "printjob_1", "v1")}

SinkFaults == SUBSET {"marshal", "write", "close"}

\* A byte stream: the bytes an encoder wrote, intact or damaged since.
Streams(encodings) ==
    {[intact |-> intact, data |-> data] :
        intact \in BOOLEAN, data \in encodings}

ErrMarshal == "json: marshal failed"
ErrWrite == "sink: write failed"
ErrClose == "sink: close failed"
ErrRead == "read failed"
ErrDecode == "json: decode failed"

\* A raft.SnapshotSink: what was written to it, and whether Close has
\* succeeded on it and Cancel was called on it.
NewSink == [data |-> "", closed |-> FALSE, canceled |-> FALSE]
SinkWrite(sk, data) == [sk EXCEPT !.data = data]
SinkClose(sk) == [sk EXCEPT !.closed = TRUE]
SinkCancel(sk) == [sk EXCEPT !.canceled = TRUE]

Outcome(err, sk) == [err |-> err, sink |-> sk]

\* fsmSnapshot.Persist with its three failures.
PersistOutcome(snap, faults) ==
    IF "marshal" \in faults THEN Outcome(ErrMarshal, SinkCancel(NewSink))
    ELSE IF "write" \in faults THEN Outcome(ErrWrite, SinkCancel(NewSink))
    ELSE LET written == SinkWrite(NewSink, Persist(snap))
         IN IF "close" \in faults THEN Outcome(ErrClose, written)
            ELSE Outcome(NoError, SinkClose(written))

\* FSMSnapshot.Persist of raft3d: the encoder writes to the sink; any error
\* of the inner function cancels the sink.
KVPersistOutcome(snap, faults) ==
    LET inner ==
            IF "marshal" \in faults THEN Outcome(ErrMarshal, NewSink)
            ELSE IF "write" \in faults THEN Outcome(ErrWrite, NewSink)
            ELSE LET written == SinkWrite(NewSink, KVPersist(snap))
                 IN IF "close" \in faults THEN Outcome(ErrClose, written)
                    ELSE Outcome(NoError, SinkClose(written))
    IN IF inner.err # NoError THEN Outcome(inner.err, SinkCancel(inner.sink))
       ELSE inner

\* FSM.Restore with its two failures: the error and the store the FSM holds
\* when it returns.
RestoreOutcomeDecodesInPlace(current, bytes, readFails) ==
    IF readFails THEN [err |-> ErrRead, store |-> current]
    ELSE IF ~bytes.intact THEN [err |-> ErrDecode, store |-> NewStore]
    ELSE [err |-> NoError, store |-> Restore(bytes.data)]

RestoreOutcome(current, bytes, readFails) ==
    IF readFails THEN [err |-> ErrRead, store |-> current]
    ELSE IF ~bytes.intact THEN [err |-> ErrDecode, store |-> current]
    ELSE [err |-> NoError, store |-> Restore(bytes.data)]

KVRestoreOutcome(current, bytes, readFails) ==
    IF readFails \/ ~bytes.intact THEN [err |-> ErrDecode, data |-> current]
    ELSE [err |-> NoError, data |-> KVRestore(bytes.data)]

PersistCall == "Persist"
RestoreCall == "Restore"

FaultUnchanged == UNCHANGED <<program, proc, reqs, raftVars>>

FaultyPersist ==
    /\ program = "store"
    /\ call.fn = PersistCall
    /\ ~call.returned
    /\ call' = Returned(call, PersistOutcome(call.args[1], call.args[2]))
    /\ UNCHANGED <<fsmVars, kv>>
    /\ FaultUnchanged

FaultyKVPersist ==
    /\ program = "raft3d"
    /\ call.fn = PersistCall
    /\ ~call.returned
    /\ call' = Returned(call, KVPersistOutcome(call.args[1], call.args[2]))
    /\ UNCHANGED <<fsmVars, kv>>
    /\ FaultUnchanged

\* FSM.Restore on the second FSM, as one step under its lock.
FaultyRestore ==
    /\ program = "store"
    /\ call.fn = RestoreCall
    /\ ~call.returned
    /\ LET r == RestoreOutcome(restored.store, call.args[1], call.args[2])
       IN /\ call' = Returned(call, r.err)
          /\ restored' = [restored EXCEPT !.store = r.store,
                                          !.done = r.err = NoError]
    /\ UNCHANGED <<store, nApplied, emitted, snapshot, sink, kv>>
    /\ FaultUnchanged

FaultyKVRestore ==
    /\ program = "raft3d"
    /\ call.fn = RestoreCall
    /\ ~call.returned
    /\ LET r == KVRestoreOutcome(kv.restored.data, call.args[1], call.args[2])
       IN /\ call' = Returned(call, r.err)
          /\ kv' = [kv EXCEPT !.restored.data = r.data,
                              !.restored.done = r.err = NoError]
    /\ UNCHANGED fsmVars
    /\ FaultUnchanged

InitFaults ==
    /\ program \in {"store", "raft3d"}
    /\ InitRaft /\ InitProc /\ InitRaft3D
    /\ store = NewStore /\ nApplied = 0 /\ emitted = [k \in Kinds |-> <<>>]
    /\ snapshot = NoSnapshot /\ sink = EmptySink
    /\ \E current \in FaultStores : restored = [NotRestored EXCEPT !.store = current]
    /\ \E current \in FaultData : kv = [NewKV EXCEPT !.restored.data = current]
    /\ IF program = "store"
       THEN /\ kv.restored.data = EmptyMap
            /\ \/ call \in {Call(PersistCall, <<snap, faults>>) :
                                snap \in FaultStores, faults \in SinkFaults}
               \/ call \in {Call(RestoreCall, <<bytes, readFails>>) :
                                bytes \in Streams({Persist(s) : s \in FaultStores}),
                                readFails \in BOOLEAN}
       ELSE /\ restored.store = NewStore
            /\ \/ call \in {Call(PersistCall, <<snap, faults>>) :
                                snap \in FaultData, faults \in SinkFaults}
               \/ call \in {Call(RestoreCall, <<bytes, readFails>>) :
                                bytes \in Streams({KVPersist(d) : d \in FaultData}),
                                readFails \in BOOLEAN}
    /\ call.fn = PersistCall =>
           restored.store = NewStore /\ kv.restored.data = EmptyMap

NextFaults == FaultyPersist \/ FaultyKVPersist \/ FaultyRestore \/ FaultyKVRestore

SpecFaults == InitFaults /\ [][NextFaults]_vars

(***************************************************************************)
(* SpecJoin: cluster membership. A bootstrapped node n1 and two nodes that *)
(* join it (RaftServer.Join of the store program, RaftStore.Join of the    *)
(* raft3d program, behind POST /join). Each node holds its own view of the *)
(* Raft configuration; the library replicates the leader's.                *)
(***************************************************************************)
JoinNodes == {"n1", "n2", "n3"}

Server(id, addr) == [ID |-> id, Address |-> addr]

\* A node with its view of the configuration (a list of servers).
JoinNode(config) ==
    [state |-> Follower, leader |-> "", store |-> NewStore, data |-> EmptyMap,
     applied |-> 0, config |-> config]

\* The loop of Join over configFuture.Configuration().Servers.
HasServer(config, nodeID, addr) ==
    \E i \in 1 .. Len(config) :
        config[i].ID = nodeID \/ config[i].Address = addr

ErrRaftNotLeader == "node is not the leader"
ErrDuplicateAddress == "found duplicate address in configuration"

\* raft.AddVoter on node n: only the leader changes the configuration; a
\* known id gets the new address, an unknown one is appended; a configuration
\* with one address twice is refused.
AddVoter(n, nodeID, addr) ==
    LET config == nodes[n].config
        known == \E i \in 1 .. Len(config) : config[i].ID = nodeID
        next == IF known
                THEN [i \in 1 .. Len(config) |->
                         IF config[i].ID = nodeID THEN Server(nodeID, addr)
                         ELSE config[i]]
                ELSE Append(config, Server(nodeID, addr))
        duplicate == \E i, j \in 1 .. Len(next) :
                         i # j /\ next[i].Address = next[j].Address
    IN IF nodes[n].state # Leader THEN [config |-> config, err |-> ErrRaftNotLeader]
       ELSE IF duplicate THEN [config |-> config, err |-> ErrDuplicateAddress]
       ELSE [config |-> next, err |-> NoError]

\* RaftServer.Join (store program).
JoinAlwaysAddsVoter(n, nodeID, addr) == AddVoter(n, nodeID, addr)

Join(n, nodeID, addr) ==
    IF HasServer(nodes[n].config, nodeID, addr)
    THEN [config |-> nodes[n].config, err |-> NoError]
    ELSE AddVoter(n, nodeID, addr)

\* RaftStore.Join (raft3d program).
KVJoin(n, nodeID, addr) ==
    IF nodes[n].state # Leader
    THEN [config |-> nodes[n].config, err |-> ErrKVNotLeader]
    ELSE IF HasServer(nodes[n].config, nodeID, addr)
    THEN [config |-> nodes[n].config, err |-> NoError]
    ELSE AddVoter(n, nodeID, addr)

\* The join requests: each node with its own address, n3 with the address of
\* n2, and n2 with the address of n3.
JoinRequests ==
    {Server(n, RaftAddr(n)) : n \in JoinNodes} \cup
    {Server("n3", RaftAddr("n2")), Server("n2", RaftAddr("n3"))}

\* The handler that serves the join requests, one after the other.
JoinHandlers == {"h1"}

JoinRequest(srv) == Request("POST /join", Payload(srv), "", "")

\* Handler.JoinCluster (store) and Server.handleJoin (raft3d) on node n: 500
\* when Join fails, 200 otherwise.
JoinCluster(h, n, nodeID, addr) ==
    /\ Free(h)
    /\ LET r == IF program = "store" THEN Join(n, nodeID, addr)
                ELSE KVJoin(n, nodeID, addr)
       IN /\ nodes' = [nodes EXCEPT ![n].config = r.config]
          /\ reqs' = [reqs EXCEPT ![h] =
                          Answered(JoinRequest(Server(nodeID, addr)),
                                   IF r.err # NoError
                                   THEN StatusInternalServerError ELSE StatusOK,
                                   0)]
    /\ UNCHANGED <<program, proc, call, fsmVars, log, resp, kv>>

\* The library: a node that is in its own configuration, and whose
\* configuration is the latest, wins an election when there is no leader; a
\* leader steps down; a follower receives the leader's configuration.
JoinElect(n) ==
    /\ \A m \in JoinNodes : nodes[m].state # Leader
    /\ \E i \in 1 .. Len(nodes[n].config) : nodes[n].config[i].ID = n
    /\ \A m \in JoinNodes : Len(nodes[m].config) <= Len(nodes[n].config)
    /\ nodes' = [nodes EXCEPT ![n].state = Leader, ![n].leader = RaftAddr(n)]
    /\ UNCHANGED <<program, proc, call, reqs, fsmVars, log, resp, kv>>

JoinStepDown(n) == RaftStepDown(n)

JoinReplicate(n, m) ==
    /\ nodes[n].state = Leader
    /\ m # n
    /\ \E i \in 1 .. Len(nodes[n].config) : nodes[n].config[i].ID = m
    /\ nodes[m].config # nodes[n].config
    /\ nodes' = [nodes EXCEPT ![m].config = nodes[n].config,
                              ![m].leader = RaftAddr(n)]
    /\ UNCHANGED <<program, proc, call, reqs, fsmVars, log, resp, kv>>

\* NewRaftServer / NewRaftStore: n1 is started with bootstrap, the others
\* without.
InitJoin ==
    /\ program \in {"store", "raft3d"}
    /\ InitFSM
    /\ InitKV /\ InitCall /\ InitProc
    /\ nodes = [n \in JoinNodes |->
                   JoinNode(IF n = "n1" THEN <<Server(n, RaftAddr(n))>> ELSE <<>>)]
    /\ log = <<>>
    /\ resp = NoResponse
    /\ reqs = [h \in Handlers |-> IdleHandler]

NextJoin ==
    \/ \E h \in JoinHandlers, n \in JoinNodes, srv \in JoinRequests :
           JoinCluster(h, n, srv.ID, srv.Address)
    \/ \E n \in JoinNodes : JoinElect(n)
    \/ \E n \in JoinNodes : JoinStepDown(n)
    \/ \E n, m \in JoinNodes : JoinReplicate(n, m)

SpecJoin == InitJoin /\ [][NextJoin]_vars

(***************************************************************************)
(* Properties of the typed FSM (checked under Spec)                        *)
(***************************************************************************)
Last(seq) == seq[Len(seq)]

MapOf(s, kind) ==
    CASE kind = "printer" -> s.Printers
      [] kind = "filament" -> s.Filaments
      [] kind = "printjob" -> s.PrintJobs

\* C1: for every filament F, the print weights of the Queued and Running jobs
\* on F sum to at most F's remaining weight.
FilamentBudget ==
    \A f \in DOMAIN store.Filaments :
        weightUsedByOtherJobs(store, f) <= store.Filaments[f].RemainingWeightInGrams

AllowedTransitions ==
    {<<Queued, Running>>, <<Queued, Canceled>>,
     <<Running, Done>>, <<Running, Canceled>>}

\* C3: a job that is Done or Canceled keeps that status in the next state, and
\* every change of a stored job's status is one of the four allowed ones.
TerminalAbsorbing ==
    [][\A id \in DOMAIN store.PrintJobs :
          LET before == store.PrintJobs[id].Status
              after == store'.PrintJobs[id].Status
          IN /\ before \in {Done, Canceled} => after = before
             /\ after # before => <<before, after>> \in AllowedTransitions]_vars

\* C4: every filament has 0 <= remaining weight <= total weight.
FilamentWeightBounds ==
    \A f \in DOMAIN store.Filaments :
        /\ 0 <= store.Filaments[f].RemainingWeightInGrams
        /\ store.Filaments[f].RemainingWeightInGrams
               <= store.Filaments[f].TotalWeightInGrams

\* C8: every stored job's printer_id is a key of the printers map and its
\* filament_id a key of the filaments map.
ReferentialIntegrity ==
    \A j \in DOMAIN store.PrintJobs :
        /\ store.PrintJobs[j].PrinterID \in DOMAIN store.Printers
        /\ store.PrintJobs[j].FilamentID \in DOMAIN store.Filaments

\* C8 witness: two jobs are stored, and more printers exist than the one
\* they use.
ReferentialIntegrityWitness ==
    /\ Cardinality(DOMAIN store.PrintJobs) >= 2
    /\ Cardinality(DOMAIN store.Printers) >= 2

\* C10: a create with an empty id never replaces a stored entity: the id the
\* allocator assigns to it is not already a key of that kind's map.
AllocatedIdIsFresh ==
    [][\A k \in Kinds :
          emitted'[k] # emitted[k] =>
              Last(emitted'[k]) \notin DOMAIN MapOf(store, k)]_vars

AllocatorState ==
    \A k \in Kinds :
        /\ \A i \in 1 .. Len(emitted[k]) :
               /\ emitted[k][i] = Itoa(i)
               /\ Atoi(emitted[k][i]) < store.NextID[k]
               /\ \A j \in 1 .. Len(emitted[k]) :
                      i < j => Atoi(emitted[k][i]) < Atoi(emitted[k][j])
        /\ store.NextID[k] >= 1
        /\ restored.fresh => restored.store.NextID[k] = restored.of.NextID[k]

AllocatorStep ==
    \A k \in Kinds :
        /\ store'.NextID[k] >= store.NextID[k]
        /\ restored'.store.NextID[k] >= restored.store.NextID[k]
        /\ emitted'[k] # emitted[k] =>
               /\ Last(emitted'[k]) = Itoa(store.NextID[k])
               /\ store'.NextID[k] = store.NextID[k] + 1

\* C9: per kind the allocator starts at 1, returns next_sequence as a decimal
\* string and then increments it; the ids emitted are distinct and increasing,
\* next_sequence exceeds each of them and never decreases, also on the FSM a
\* snapshot is restored on.
AllocatorMonotone == AllocatorState /\ [][AllocatorState' /\ AllocatorStep]_vars

\* C9 witness: two printer ids were emitted and a snapshot taken after that
\* has just been restored on the second FSM.
AllocatorMonotoneWitness ==
    /\ Len(emitted["printer"]) >= 2
    /\ restored.fresh
    /\ restored.store.NextID["printer"] >= 3

\* C29: the bytes Persist writes encode the store as it was when Snapshot
\* ran, whatever Apply changed between Snapshot and Persist, and the handle
\* keeps holding that store; likewise the key-value FSM's data.
SnapshotIsolation ==
    /\ snapshot.taken => snapshot.store = snapshot.of
    /\ sink.written => sink.data = MarshalStore(snapshot.of)
    /\ kv.snapshot.taken => kv.snapshot.data = kv.snapshot.of
    /\ kv.sink.written => kv.sink.data = MarshalObject(kv.snapshot.of)

\* C29 witness: Persist ran two entries after Snapshot did; the store had
\* gained a filament by then, and the bytes do not hold it.
SnapshotIsolationWitness ==
    /\ sink.written
    /\ snapshot.index = 1
    /\ sink.index = 3
    /\ DOMAIN snapshot.of.Filaments = {}
    /\ DOMAIN store.Filaments # {}
    /\ sink.data # MarshalStore(store)

\* The invariants of a store: jobs refer to stored printers and filaments,
\* no remaining weight is negative, the active jobs of a filament fit its
\* remaining weight, and each allocator is above the numeric ids stored.
ReferencesHold(s) ==
    \A j \in DOMAIN s.PrintJobs :
        /\ s.PrintJobs[j].PrinterID \in DOMAIN s.Printers
        /\ s.PrintJobs[j].FilamentID \in DOMAIN s.Filaments

BudgetHolds(s) ==
    \A f \in DOMAIN s.Filaments :
        /\ s.Filaments[f].RemainingWeightInGrams >= 0
        /\ SumWeights(s.PrintJobs, ActiveJobsOn(s, f))
               <= s.Filaments[f].RemainingWeightInGrams

AllocatorsAbove(s) ==
    \A n \in ParseRange :
        /\ Itoa(n) \in DOMAIN s.Printers => n < s.NextID["printer"]
        /\ Itoa(n) \in DOMAIN s.Filaments => n < s.NextID["filament"]
        /\ Itoa(n) \in DOMAIN s.PrintJobs => n < s.NextID["printjob"]

StoreInvariants(s) == ReferencesHold(s) /\ BudgetHolds(s) /\ AllocatorsAbove(s)

\* C21: an FSM that Restore has just returned on serves a store that
\* satisfies the invariants; a byte stream decoding to any other store does
\* not become the FSM's store.
RestoreVerifiesInvariants ==
    restored.fresh => StoreInvariants(restored.store)

\* C37: an FSM restored from the snapshot taken after a prefix of the log,
\* once it has applied the rest of the log, holds the same store as the FSM
\* that applied the whole log: the same printers, filaments, print jobs and
\* id allocator.
SnapshotThenSuffix ==
    (restored.done /\ restored.applied = nApplied) => restored.store = store

(***************************************************************************)
(* Properties of the cluster (checked under SpecRaft)                      *)
(***************************************************************************)
\* C2: two FSMs that have applied the same log entries hold equal stores,
\* created_at and updated_at included, whatever their local clocks read.
ReplicaDeterminism ==
    \A n, m \in Nodes :
        nodes[n].applied = nodes[m].applied => nodes[n].store = nodes[m].store

\* A step in which the gateway of a node that is not the leader answers a
\* write whose body it has decoded.
NonLeaderAnswers ==
    /\ resp' # resp
    /\ resp'.node \in Nodes
    /\ resp'.err # ErrBindJSON
    /\ nodes[resp'.node].state # Leader

\* C5: a write invoked on a node that is not the leader returns an error,
\* appends nothing to the log and leaves the store of every replica unchanged.
LeaderOnlyWrites ==
    [][NonLeaderAnswers =>
          /\ resp'.err # NoError
          /\ resp'.err = IF program = "store" THEN ErrNotLeader ELSE ErrKVNotLeader
          /\ resp'.code \notin {StatusOK, StatusCreated}
          /\ log' = log
          /\ \A m \in Nodes :
                 /\ nodes'[m].store = nodes[m].store
                 /\ nodes'[m].data = nodes[m].data
                 /\ nodes'[m].applied = nodes[m].applied]_vars

\* C5 witness: a follower has refused a write while the log and the stores
\* already hold a printer.
LeaderOnlyWritesWitness ==
    /\ resp.node \in Nodes
    /\ nodes[resp.node].state = Follower
    /\ resp.err = ErrNotLeader
    /\ Len(log) >= 1
    /\ \A m \in Nodes : nodes[m].store.Printers # EmptyMap

\* C6: the error a non-leader returns for a write carries the leader address
\* the node knows at that moment: the address is the error returned or a
\* member of the body answered.
NotLeaderCarriesLeader ==
    [][(NonLeaderAnswers /\ GetLeader(resp'.node) # "") =>
          \/ resp'.err = GetLeader(resp'.node)
          \/ \E member \in resp'.body : member[2] = GetLeader(resp'.node)]_vars

(***************************************************************************)
(* Further properties of the typed FSM (checked under Spec)                *)
(***************************************************************************)
\* C11: a stored printer is never deleted and never changes: every later
\* state holds a printer with the same id, company and model.
PrintersImmutable ==
    [][\A p \in DOMAIN store.Printers :
          /\ p \in DOMAIN store'.Printers
          /\ store'.Printers[p].Company = store.Printers[p].Company
          /\ store'.Printers[p].Model = store.Printers[p].Model]_vars

\* What is left of filament f once its Queued and Running jobs are served.
Available(s, f) ==
    s.Filaments[f].RemainingWeightInGrams
        - SumWeights(s.PrintJobs,
                     {j \in DOMAIN s.PrintJobs :
                         /\ s.PrintJobs[j].FilamentID = f
                         /\ s.PrintJobs[j].Status \in {Queued, Running}})

\* The CreatePrintJob commands whose printer and filament exist in s.
AdmissibleRefs(s) ==
    {cmd \in PrintJobCommands :
        /\ cmd.Data.v.PrinterID \in DOMAIN s.Printers
        /\ cmd.Data.v.FilamentID \in DOMAIN s.Filaments}

\* C12: in every reachable store, a CreatePrintJob of weight w whose printer
\* and filament F exist is accepted (the job is stored Queued) iff
\* Available(F) >= w; otherwise it is rejected, the store is unchanged and the
\* error is 'not enough filament' naming w and Available(F).
BudgetAdmission ==
    \A cmd \in AdmissibleRefs(store) :
        LET job == cmd.Data.v
            w == job.PrintWeightInGrams
            avail == Available(store, job.FilamentID)
            r == Apply(store, cmd, 1, 1)
        IN IF avail >= w
           THEN /\ r.err = Ok
                /\ r.id \in DOMAIN r.store.PrintJobs
                /\ r.store.PrintJobs[r.id].Status = Queued
                /\ r.store.PrintJobs[r.id].PrintWeightInGrams = w
           ELSE /\ r.err = [msg |-> ErrNotEnough, needs |-> w, available |-> avail]
                /\ r.store = store

\* C12 witness: a job of 1 gram was accepted on a filament of 2 grams, and a
\* further job of 2 grams on it is rejected with 1 gram available.
BudgetAdmissionWitness ==
    /\ "1" \in DOMAIN store.Filaments
    /\ "1" \in DOMAIN store.Printers
    /\ store.Filaments["1"].RemainingWeightInGrams = 2
    /\ \E j \in DOMAIN store.PrintJobs :
           /\ store.PrintJobs[j].FilamentID = "1"
           /\ store.PrintJobs[j].Status = Queued
           /\ store.PrintJobs[j].PrintWeightInGrams = 1
    /\ Available(store, "1") = 1
    /\ Apply(store,
             Command(CreatePrintJob, Payload(PrintJob("", "1", "1", 2, "")), "", ""),
             1, 1).err
           = [msg |-> ErrNotEnough, needs |-> 2, available |-> 1]

(***************************************************************************)
(* Properties of the raft3d HTTP API (checked under SpecApi)               *)
(***************************************************************************)
\* A step that commits the creation of a print job: the entry appended sets a
\* print job key to a Queued job.
CommitsNewJob ==
    /\ Len(log') = Len(log) + 1
    /\ \E id \in ApiJobIDs : Last(log').Key = PrintJobKey(id)
    /\ Last(log').Value.status = Queued

\* C13: the budget check of a create-print-job request sees every job
\* committed before it in log order: once its entry is committed, the Queued
\* and Running jobs stored on the filament, the new one included, weigh
\* together at most the filament's remaining weight.
BudgetCheckedAtApply ==
    [][CommitsNewJob =>
          LET job == Last(log').Value
              filamentKey == FilamentKey(job.filament_id)
              after == nodes'[ApiNode].data
          IN /\ filamentKey \in DOMAIN after
             /\ calculateAllocatedFilamentWeight(after, job.filament_id)
                    <= after[filamentKey].remaining_weight_in_grams]_vars

\* C33: the status change of a job to Done and the reduction of its
\* filament take effect together: in no state does a stored filament have
\* less than its total weight left while no job on it is stored as Done.
ConsumedOnlyByDoneJobs ==
    \A f \in {"1"} :
        (/\ FilamentKey(f) \in DOMAIN ApiData
         /\ ApiData[FilamentKey(f)].remaining_weight_in_grams
                < ApiData[FilamentKey(f)].total_weight_in_grams) =>
            \E j \in ApiJobIDs :
                /\ PrintJobKey(j) \in DOMAIN ApiData
                /\ ApiData[PrintJobKey(j)].filament_id = f
                /\ ApiData[PrintJobKey(j)].status = Done

(***************************************************************************)
(* Properties of the gateway (checked under SpecRaft)                      *)
(***************************************************************************)
\* The errors with which FSM.Apply rejects a command.
DomainErrors ==
    {ErrNoPrinter, ErrNoFilament, ErrNotEnough, ErrNoPrintJob,
     ErrQueued, ErrRunning, ErrTerminal, ErrUnknownStatus}

\* C14: when the FSM rejects a command the gateway answers 400 with the
\* message, never the status it answers a NotLeader outcome with (500).
DomainRejectionIsBadRequest ==
    [][(resp' # resp /\ resp'.err \in DomainErrors) =>
          /\ resp'.code = StatusBadRequest
          /\ resp'.code # StatusInternalServerError
          /\ resp'.body = ErrorBody(resp'.err)]_vars

\* A create request that lacks a required field or carries a value outside
\* its domain, or whose body is malformed.
InvalidRequest(cmd) ==
    /\ cmd.Type \in {CreatePrinter, CreateFilament, CreatePrintJob}
    /\ \/ ~cmd.Data.valid
       \/ /\ cmd.Type = CreatePrinter
          /\ cmd.Data.v.Company = "" \/ cmd.Data.v.Model = ""
       \/ /\ cmd.Type = CreateFilament
          /\ \/ cmd.Data.v.Type \notin {"PLA", "PETG", "ABS", "TPU"}
             \/ cmd.Data.v.TotalWeightInGrams < 0
       \/ /\ cmd.Type = CreatePrintJob
          /\ \/ cmd.Data.v.PrinterID = ""
             \/ cmd.Data.v.FilamentID = ""
             \/ cmd.Data.v.PrintWeightInGrams <= 0

\* C15: a create request that is malformed or lacks a required field is
\* answered 400 and submits no command to the Raft log.
InvalidNeverSubmitted ==
    [][\A n \in Nodes, cmd \in RaftCommands :
          (InvalidRequest(cmd) /\ GatewayWrite(n, cmd))
              => /\ resp'.code = StatusBadRequest
                 /\ log' = log]_vars

\* A step in which a node answers a write with success.
WriteSucceeds ==
    /\ Len(log') > Len(log)
    /\ resp'.node \in Nodes
    /\ resp'.code \in {StatusOK, StatusCreated}

\* What GetPrinters, GetFilaments, GetPrintJobs (the store program) and Get
\* (the raft3d program) read on node n shows the effect of the write cmd that
\* was answered with the id.
Observes(node, cmd, id) ==
    IF program = "raft3d"
    THEN cmd.Key \in DOMAIN node.data /\ node.data[cmd.Key] = cmd.Value
    ELSE CASE cmd.Type = CreatePrinter ->
                  /\ id \in DOMAIN node.store.Printers
                  /\ node.store.Printers[id].Company = cmd.Data.v.Company
           [] cmd.Type = CreateFilament ->
                  /\ id \in DOMAIN node.store.Filaments
                  /\ node.store.Filaments[id].TotalWeightInGrams
                         = cmd.Data.v.TotalWeightInGrams
           [] cmd.Type = CreatePrintJob ->
                  /\ id \in DOMAIN node.store.PrintJobs
                  /\ node.store.PrintJobs[id].Status = Queued
           [] OTHER ->
                  /\ cmd.ID \in DOMAIN node.store.PrintJobs
                  /\ node.store.PrintJobs[cmd.ID].Status = cmd.Status

\* Nothing a node has applied is taken back: its applied index never
\* decreases and no entity of its store disappears.
NodeKeepsWrites(n) ==
    /\ nodes'[n].applied >= nodes[n].applied
    /\ DOMAIN nodes[n].store.Printers \subseteq DOMAIN nodes'[n].store.Printers
    /\ DOMAIN nodes[n].store.Filaments \subseteq DOMAIN nodes'[n].store.Filaments
    /\ DOMAIN nodes[n].store.PrintJobs \subseteq DOMAIN nodes'[n].store.PrintJobs

\* C18: when a write returns success on a node, that node has applied it: a
\* read on the same node from then on observes its effect, and nothing the
\* node has applied is taken back by a later step.
ReadYourWrites ==
    [][/\ WriteSucceeds =>
             /\ nodes'[resp'.node].applied = Len(log')
             /\ \E member \in resp'.body :
                    Observes(nodes'[resp'.node], Last(log'), member[2])
       /\ \A n \in Nodes : NodeKeepsWrites(n)]_vars

\* C18 witness: n1 has answered the creation of printer 1 with success and
\* has since lost the leadership to n2, which has not applied the entry yet:
\* the store of n1 holds printer 1, the store of n2 does not.
ReadYourWritesWitness ==
    /\ program = "store"
    /\ resp.node = "n1" /\ resp.code = StatusCreated /\ resp.body = ResultBody("1")
    /\ nodes["n1"].state = Follower /\ nodes["n2"].state = Leader
    /\ Len(log) = 1 /\ log[1].Type = CreatePrinter
    /\ nodes["n1"].applied = 1 /\ nodes["n2"].applied = 0
    /\ "1" \in DOMAIN nodes["n1"].store.Printers
    /\ "1" \notin DOMAIN nodes["n2"].store.Printers

\* Node n is where it was, or its FSM has applied the entry of the log that
\* follows the ones it had applied, with some reading of its clock.
AppliesNextEntry(n) ==
    \/ /\ nodes'[n].applied = nodes[n].applied
       /\ nodes'[n].store = nodes[n].store
       /\ nodes'[n].data = nodes[n].data
    \/ /\ nodes'[n].applied = nodes[n].applied + 1
       /\ nodes'[n].applied <= Len(log')
       /\ LET cmd == log'[nodes'[n].applied]
          IN IF program = "store"
             THEN /\ \E clock \in ClocksOf(n, cmd) :
                         nodes'[n].store
                             = Apply(nodes[n].store, cmd, clock[1], clock[2]).store
                  /\ nodes'[n].data = nodes[n].data
             ELSE /\ nodes'[n].data = KVApply(nodes[n].data, cmd).data
                  /\ nodes'[n].store = nodes[n].store

NothingApplied ==
    \A n \in Nodes :
        nodes[n].applied = 0 /\ nodes[n].store = NewStore /\ nodes[n].data = EmptyMap

\* C19: every replica starts empty and applies the entries of the one log in
\* log order, one after the other, so its store is always the result of
\* applying a prefix of the log; the log only grows at its end; and under
\* fair delivery every entry of the log is eventually applied by every
\* replica.
ReplicaConvergence ==
    /\ NothingApplied
    /\ [][/\ SubSeq(log', 1, Len(log)) = log
          /\ \A n \in Nodes : AppliesNextEntry(n)]_vars
    /\ \A n \in Nodes, i \in 1 .. MaxLog :
           (Len(log) >= i) ~> (nodes[n].applied >= i)

\* C19 witness: the log is full, the follower n2 has applied all of it and
\* its store holds the printer, the filament and the job the leader n1 wrote.
ReplicaConvergenceWitness ==
    /\ program = "store"
    /\ Len(log) = MaxLog
    /\ nodes["n1"].state = Leader /\ nodes["n2"].state = Follower
    /\ \A n \in Nodes : nodes[n].applied = Len(log)
    /\ \A n \in Nodes :
           /\ "1" \in DOMAIN nodes[n].store.Printers
           /\ "1" \in DOMAIN nodes[n].store.Filaments
           /\ "1" \in DOMAIN nodes[n].store.PrintJobs

\* C20: a write request submits at most one entry to the Raft log: no
\* handler, running or answered, has more than one entry of its request in
\* the log.
OneSubmission ==
    \A h \in Handlers : reqs[h].entries <= 1

\* C25: in every store reached, an accepted update of a job to Done leaves
\* its filament with the remaining weight minus the job's print weight, or 0
\* when that is negative, and every other filament as it was; an accepted
\* update to Running or Canceled leaves every filament as it was; an update
\* to Canceled of a job that is Done is rejected and changes nothing.
DoneSubtractsWeight ==
    \A cmd \in UpdateCommands :
        LET r == Apply(store, cmd, 1, 1)
            accepted == r.err = Ok
            job == store.PrintJobs[cmd.ID]
            fid == job.FilamentID
            left == store.Filaments[fid].RemainingWeightInGrams
                        - job.PrintWeightInGrams
        IN /\ (accepted /\ cmd.Status = Done) =>
                  /\ DOMAIN r.store.Filaments = DOMAIN store.Filaments
                  /\ fid \in DOMAIN store.Filaments
                  /\ r.store.Filaments[fid] =
                         [store.Filaments[fid] EXCEPT
                             !.RemainingWeightInGrams = IF left < 0 THEN 0 ELSE left]
                  /\ \A other \in DOMAIN store.Filaments \ {fid} :
                         r.store.Filaments[other] = store.Filaments[other]
           /\ (accepted /\ cmd.Status # Done) =>
                  /\ cmd.Status \in {Running, Canceled}
                  /\ r.store.Filaments = store.Filaments
           /\ (/\ cmd.ID \in DOMAIN store.PrintJobs
               /\ job.Status = Done
               /\ cmd.Status = Canceled) =>
                  ~accepted /\ r.store = store

\* C25 witness: a job of 2 grams is Done and its filament of 2 grams has
\* nothing left.
DoneSubtractsWeightWitness ==
    \E id \in DOMAIN store.PrintJobs :
        LET job == store.PrintJobs[id]
        IN /\ job.Status = Done
           /\ job.PrintWeightInGrams = 2
           /\ job.FilamentID \in DOMAIN store.Filaments
           /\ store.Filaments[job.FilamentID].TotalWeightInGrams = 2
           /\ store.Filaments[job.FilamentID].RemainingWeightInGrams = 0

\* C26: when the remaining weight of a stored filament differs between two
\* consecutive states, a job on that filament has gone to Done in that step.
RemainingChangesOnlyOnDone ==
    [][\A fid \in DOMAIN store.Filaments \cap DOMAIN store'.Filaments :
          store'.Filaments[fid].RemainingWeightInGrams
              # store.Filaments[fid].RemainingWeightInGrams
          => \E id \in DOMAIN store.PrintJobs :
                 /\ store.PrintJobs[id].FilamentID = fid
                 /\ store.PrintJobs[id].Status # Done
                 /\ store'.PrintJobs[id].Status = Done]_vars

\* Print jobs of 1 gram on printer 1 and filament 1 whose payload carries a
\* status: none, one of the four, or an unknown string.
PrintJobsWithStatus ==
    {Command(CreatePrintJob, Payload(PrintJob(id, "1", "1", 1, st)), "", "") :
        id \in {"", "1"}, st \in {"", Queued, Running, Done, Canceled, "Paused"}}

\* C27: in every store reached, an accepted CreatePrintJob stores the job
\* with status Queued whatever status its payload carried, under the id it
\* returns, with the payload's other fields.
CreatedJobIsQueued ==
    \A cmd \in PrintJobsWithStatus \cup PrintJobCommands :
        LET r == Apply(store, cmd, 1, 2)
        IN r.err = Ok =>
              /\ r.id \in DOMAIN r.store.PrintJobs
              /\ cmd.Data.v.ID # "" => r.id = cmd.Data.v.ID
              /\ r.store.PrintJobs[r.id] =
                     [cmd.Data.v EXCEPT !.ID = r.id, !.Status = Queued,
                                        !.CreatedAt = 1, !.UpdatedAt = 2]

\* C27 witness: a Queued job and a Running job are stored, and the store
\* accepts a further job whose payload carries the status Done and the id of
\* the Running job.
CreatedJobIsQueuedWitness ==
    /\ \E id \in DOMAIN store.PrintJobs : store.PrintJobs[id].Status = Queued
    /\ \E id \in DOMAIN store.PrintJobs : store.PrintJobs[id].Status = Running
    /\ \E cmd \in PrintJobsWithStatus :
           /\ cmd.Data.v.Status = Done
           /\ cmd.Data.v.ID \in DOMAIN store.PrintJobs
           /\ store.PrintJobs[cmd.Data.v.ID].Status = Running
           /\ Apply(store, cmd, 1, 2).err = Ok

\* C28: in every store reached, CreateFilament stores the payload with its
\* remaining weight, or with its total weight as remaining weight when the
\* payload's remaining weight is 0, under the payload's id when it has one
\* and under a newly allocated id otherwise, and returns that id.
FilamentRemainingDefault ==
    \A cmd \in FilamentCommands :
        LET r == Apply(store, cmd, 1, 1)
            payload == cmd.Data.v
        IN /\ r.err = Ok
           /\ r.id \in DOMAIN r.store.Filaments
           /\ r.store.Filaments[r.id] =
                  [payload EXCEPT
                      !.ID = r.id,
                      !.RemainingWeightInGrams =
                          IF @ = 0 THEN payload.TotalWeightInGrams ELSE @]
           /\ IF payload.ID # ""
              THEN r.id = payload.ID /\ r.store.NextID = store.NextID
              ELSE /\ r.id = Itoa(store.NextID["filament"])
                   /\ r.store.NextID["filament"] = store.NextID["filament"] + 1

\* C28 witness: filament 1 was created with a remaining weight of its own (2
\* of a total of 1) and filament 2, with an allocated id, got its total
\* weight as remaining weight.
FilamentRemainingDefaultWitness ==
    /\ {"1", "2"} \subseteq DOMAIN store.Filaments
    /\ store.Filaments["1"].TotalWeightInGrams = 1
    /\ store.Filaments["1"].RemainingWeightInGrams = 2
    /\ store.Filaments["2"].TotalWeightInGrams = 2
    /\ store.Filaments["2"].RemainingWeightInGrams = 2
    /\ store.NextID["filament"] = 3

\* C34: in every store reached, a command that FSM.Apply answers with an
\* error leaves the printers, filaments and print jobs and the id allocator
\* as they were, and no id is allocated for it.
RejectedChangesNothing ==
    \A cmd \in Commands :
        LET r == Apply(store, cmd, 1, 2)
        IN r.err # Ok =>
              /\ r.store.Printers = store.Printers
              /\ r.store.Filaments = store.Filaments
              /\ r.store.PrintJobs = store.PrintJobs
              /\ r.store.NextID = store.NextID
              /\ r.allocated = ""

\* C34 witness: the store holds a printer and a filament of 2 grams with a
\* job of 2 grams queued on it, and rejects a further job without an id for
\* lack of filament; it rejects as well an unknown command type, an
\* undecodable payload and an illegal transition.
RejectedChangesNothingWitness ==
    /\ \E cmd \in PrintJobCommands :
           /\ cmd.Data.v.ID = ""
           /\ Apply(store, cmd, 1, 2).err.msg = ErrNotEnough
    /\ \E cmd \in BadCommands : Apply(store, cmd, 1, 2).err.msg = ErrUnknownCommand
    /\ \E cmd \in BadCommands : Apply(store, cmd, 1, 2).err.msg = ErrUnmarshal
    /\ \E cmd \in UpdateCommands :
           /\ cmd.ID \in DOMAIN store.PrintJobs
           /\ Apply(store, cmd, 1, 2).err # Ok
    /\ store.NextID["printjob"] > 1

\* C35: in every store reached, an accepted UpdatePrintJob of job j changes,
\* of j, the status and updated_at only; it leaves every other job, every
\* printer and the id allocator as they were, and of the filaments it
\* changes at most the remaining weight of j's filament, and that only when
\* the new status is Done.
UpdateFrame ==
    \A cmd \in UpdateCommands :
        LET r == Apply(store, cmd, 1, 2)
            j == cmd.ID
        IN r.err = Ok =>
              /\ DOMAIN r.store.PrintJobs = DOMAIN store.PrintJobs
              /\ r.store.PrintJobs[j] =
                     [store.PrintJobs[j] EXCEPT
                         !.Status = r.store.PrintJobs[j].Status,
                         !.UpdatedAt = r.store.PrintJobs[j].UpdatedAt]
              /\ \A other \in DOMAIN store.PrintJobs \ {j} :
                     r.store.PrintJobs[other] = store.PrintJobs[other]
              /\ r.store.Printers = store.Printers
              /\ r.store.NextID = store.NextID
              /\ r.allocated = ""
              /\ DOMAIN r.store.Filaments = DOMAIN store.Filaments
              /\ \A f \in DOMAIN store.Filaments :
                     /\ r.store.Filaments[f] =
                            [store.Filaments[f] EXCEPT
                                !.RemainingWeightInGrams =
                                    r.store.Filaments[f].RemainingWeightInGrams]
                     /\ (f # store.PrintJobs[j].FilamentID \/ cmd.Status # Done)
                            => r.store.Filaments[f] = store.Filaments[f]

\* C35 witness: two filaments and a printer are stored, and the store
\* accepts the update to Done of a Running job.
UpdateFrameWitness ==
    /\ Cardinality(DOMAIN store.Filaments) >= 2
    /\ DOMAIN store.Printers # {}
    /\ \E cmd \in UpdateCommands :
           /\ cmd.Status = Done
           /\ Apply(store, cmd, 1, 2).err = Ok
           /\ store.PrintJobs[cmd.ID].PrintWeightInGrams > 0

\* C36: in every store reached, for a job whose filament F holds its budget
\* (the weights of its Queued and Running jobs sum to at most its remaining
\* weight), an accepted update to Done or to Running leaves Available(F) as
\* it was and an accepted update to Canceled raises it by the job's weight.
ReservationAccounting ==
    \A cmd \in UpdateCommands :
        LET r == Apply(store, cmd, 1, 2)
            job == store.PrintJobs[cmd.ID]
            f == job.FilamentID
        IN (/\ r.err = Ok
            /\ weightUsedByOtherJobs(store, f)
                   <= store.Filaments[f].RemainingWeightInGrams) =>
              Available(r.store, f) =
                  Available(store, f)
                      + (IF cmd.Status = Canceled
                         THEN job.PrintWeightInGrams ELSE 0)

(***************************************************************************)
(* Properties of the validators (checked under SpecValidate)               *)
(***************************************************************************)
\* The four accepted cells of the transition table.
AcceptedTransitions ==
    {<<Queued, Running>>, <<Queued, Canceled>>, <<Running, Done>>,
     <<Running, Canceled>>}

\* C24: each validator returns no error exactly on the four pairs
\* (Queued, Running), (Queued, Canceled), (Running, Done), (Running, Canceled)
\* and an error on every other pair of strings, so the two agree; the call
\* leaves the store, the log and the key-value data as they were.
ValidatorTable ==
    call.returned =>
        /\ (call.result = NoError) <=> (call.args \in AcceptedTransitions)
        /\ store = NewStore /\ nApplied = 0 /\ kv = NewKV
        /\ (ValidatePrintJobStatusTransition(call.args[1], call.args[2]) = NoError)
               <=> ApiValidateTransition(call.args[1], call.args[2])

\* C24 witness: a validator has rejected a transition out of a status that
\* is none of the four.
ValidatorTableWitness ==
    /\ call.returned
    /\ call.args = <<"Paused", Running>>
    /\ call.result # NoError

(***************************************************************************)
(* Properties of the listings (checked under SpecRead)                     *)
(***************************************************************************)
ListingStep ==
    \/ call'.fn # call.fn
    \/ call'.todo # call.todo
    \/ call'.returned # call.returned

Answers == ~call.returned /\ call'.returned /\ ~call'.overlapped

\* The stored jobs a status query value asks for, in each program.
Asked(status, jobStatus) == status = "" \/ jobStatus = status

StoredJobsAsked(status) ==
    {j \in {store.PrintJobs[id] : id \in DOMAIN store.PrintJobs} :
        Asked(status, j.Status)}

KVJobsAsked(status) ==
    {j \in {kv.data[k] : k \in {x \in DOMAIN kv.data : IsPrintJobKey(x)}} :
        Asked(status, j.status)}

\* C23: a listing of print jobs that no write overlaps answers with exactly
\* the stored jobs whose status is the string asked for, with every stored
\* job when no status is asked for, and no step of a listing changes the
\* store.
ListingIsExact ==
    [][/\ ListingStep => store' = store /\ kv'.data = kv.data
       /\ Answers /\ call.fn = GetPrintJobs =>
              call'.result = StoredJobsAsked(call.args[1])
       /\ Answers /\ call.fn = handleGetPrintJobs =>
              /\ {call'.result[id] : id \in DOMAIN call'.result}
                     = KVJobsAsked(call.args[1])
              /\ \A id \in DOMAIN call'.result : call'.result[id].id = id]_vars

\* C23 witness: a Queued job and a Running job are stored and the listing
\* asked for "Running" has answered with the Running job alone.
ListingIsExactWitness ==
    /\ call.fn = GetPrintJobs
    /\ call.args = <<Running>>
    /\ call.returned
    /\ ~call.overlapped
    /\ \E a, b \in DOMAIN store.PrintJobs :
           /\ store.PrintJobs[a].Status = Queued
           /\ store.PrintJobs[b].Status = Running
           /\ call.result = {store.PrintJobs[b]}

\* C30: in the store program no Apply writes a map while a gateway read is
\* between taking the store and answering, the time in which it ranges over
\* that map.
ReadsExcludeApply == program = "store" => ~call.overlapped

(***************************************************************************)
(* Properties of the shutdown (checked under SpecShutdown)                 *)
(***************************************************************************)
\* C22: after a signal the process stops the HTTP server before it shuts the
\* Raft adapter down, and it does not end without having done both.
ShutdownOrder ==
    /\ proc.raft = "shutdown" => proc.http = "closed"
    /\ ~Alive => proc.http = "closed" /\ proc.raft = "shutdown"

(***************************************************************************)
(* Properties of failing calls (checked under SpecFaults)                  *)
(***************************************************************************)
\* C31: when Persist has returned an error the sink has been canceled, and
\* when it has returned none the sink has been closed and not canceled.
PersistEndsCleanly ==
    (call.fn = PersistCall /\ call.returned) =>
        IF call.result.err # NoError
        THEN call.result.sink.canceled
        ELSE call.result.sink.closed /\ ~call.result.sink.canceled

RestoreReturns == call.fn = RestoreCall /\ ~call.returned /\ call'.returned

\* C32: a Restore whose read or decoding fails returns an error and leaves
\* the FSM's store as it was; a Restore that succeeds returns no error and
\* leaves the store decoded from the stream, all of its maps at once: no
\* step leaves a store that is partly the old one and partly the new one.
RestoreAllOrNothing ==
    [][RestoreReturns =>
          IF call.args[2] \/ ~call.args[1].intact
          THEN /\ call'.result # NoError
               /\ restored'.store = restored.store
               /\ kv'.restored.data = kv.restored.data
          ELSE /\ call'.result = NoError
               /\ program = "store" =>
                      restored'.store = UnmarshalStore(call.args[1].data)
               /\ program = "raft3d" =>
                      kv'.restored.data = UnmarshalObject(call.args[1].data)]_vars

\* C32 witness: Restore has failed to decode a damaged stream that had been
\* written of another store, and the FSM still holds its printer, filament
\* and job.
RestoreAllOrNothingWitness ==
    /\ call.fn = RestoreCall
    /\ call.returned
    /\ call.result = ErrDecode
    /\ ~call.args[1].intact
    /\ DOMAIN restored.store.PrintJobs # {}
    /\ restored.store # UnmarshalStore(call.args[1].data)

(***************************************************************************)
(* Properties of cluster membership (checked under SpecJoin)               *)
(***************************************************************************)
\* C16: a join request handled by a node that is not the leader is never
\* answered with success, whatever node id and address it carries.
OnlyLeaderAcceptsJoin ==
    [][\A h \in JoinHandlers, n \in JoinNodes, srv \in JoinRequests :
          (/\ reqs'[h] # reqs[h]
           /\ nodes[n].state # Leader
           /\ JoinCluster(h, n, srv.ID, srv.Address))
              => reqs'[h].code # StatusOK]_vars

\* No two servers of a configuration share an id or an address.
NoDuplicateServers(config) ==
    \A i, j \in 1 .. Len(config) :
        i # j => /\ config[i].ID # config[j].ID
                 /\ config[i].Address # config[j].Address

\* C17: on the leader a join with an id or an address already in the
\* configuration succeeds and leaves the configuration unchanged; no
\* configuration ever holds two servers with the same id or the same address,
\* and one that holds n1, n2 and n3 holds exactly these three.
ConfigurationsWellFormed ==
    \A n \in JoinNodes :
        /\ NoDuplicateServers(nodes[n].config)
        /\ Len(nodes[n].config) <= Cardinality(JoinNodes)

RepeatedJoinSucceeds ==
    \A h \in JoinHandlers, n \in JoinNodes, srv \in JoinRequests :
        (/\ reqs'[h] # reqs[h]
         /\ nodes[n].state = Leader
         /\ HasServer(nodes[n].config, srv.ID, srv.Address)
         /\ JoinCluster(h, n, srv.ID, srv.Address))
            => /\ reqs'[h].code = StatusOK
               /\ nodes' = nodes

JoinIdempotent ==
    ConfigurationsWellFormed
        /\ [][ConfigurationsWellFormed' /\ RepeatedJoinSucceeds]_vars

\* C17 witness: n2 and n3 have joined n1, every node holds the configuration
\* of exactly the three nodes, and the leader has then answered a join of n3
\* under the address of n2 with success.
JoinIdempotentWitness ==
    /\ nodes["n1"].state = Leader
    /\ Len(nodes["n1"].config) = 3
    /\ {nodes["n1"].config[i] : i \in 1 .. 3}
           = {Server(n, RaftAddr(n)) : n \in JoinNodes}
    /\ \A n \in JoinNodes : nodes[n].config = nodes["n1"].config
    /\ \E h \in JoinHandlers :
           /\ reqs[h].req = JoinRequest(Server("n3", RaftAddr("n2")))
           /\ reqs[h].code = StatusOK

====
